---- MODULE Spec2Model ----
(***************************************************************************)
(* A model of the gvm stack virtual machine (src/vm/vm.go), its tagged     *)
(* values (src/unnamed/part_000, the common package) and its heap          *)
(* (src/heap/heap.go).                                                     *)
(*                                                                         *)
(* Representation.  TLC's integers are 32-bit signed, so a uint32 (the Raw *)
(* payload of a Value, a 4-byte immediate of the bytecode) is kept as its  *)
(* four bytes, most significant first; int32 arithmetic is done on those   *)
(* bytes (modulo 2^32) and float32 arithmetic on the decoded IEEE-754      *)
(* fields.  A byte is an integer in 0..255.  The bytecode is a sequence of *)
(* bytes; Go's 0-based offset p is element p+1 of the sequence.            *)
(***************************************************************************)
EXTENDS Integers, Sequences, FiniteSets, TLC

(***************************************************************************)
(* Value kinds: src/unnamed/part_000, lines 27-36.                         *)
(***************************************************************************)
ValueInt32 == 0
ValueFloat32 == 1
ValuePtr == 2
ValueString == 3
ValueArray == 4
ValueVoid == 5
ValueStruct == 6
ValueByte == 7

(***************************************************************************)
(* Opcodes: src/vm/vm.go, lines 736-781.                                   *)
(***************************************************************************)
HALT == 0
PUSH == 1
POP == 2
IADD == 3
ISUB == 4
IMUL == 5
IDIV == 6
FADD == 7
FSUB == 8
FMUL == 9
FDIV == 10
JMP == 11
IJNE == 12
IJE == 13
FJNE == 14
FJE == 15
EQ == 16
NE == 17
LT == 18
GT == 19
GE == 20
LE == 21
LOAD == 22
STORE == 23
CALL == 24
RET == 25
RETV == 26
ALLOC == 27
FREE == 28
LOADH == 29
STOREH == 30
DUP == 31
STRALLOC == 32
SYSCALL == 33
NEWARR == 34
LDELEM == 35
STELEM == 36
FUNC == 37
FUNC_NORMAL == 38
FUNC_MAIN == 39
DEFSTRUCT == 40
NEWSTRUCT == 41
FLDGET == 42
STFIELD == 43

\* The return address of the outermost frame, 0xFFFFFFFF in NewVm.  TLC's
\* integers stop at 2^31-1, so the model writes the all-ones word as -1; no
\* offset of a bytecode of the model is negative.
Sentinel == -1

\* syscall.Getpagesize() on the platforms the VM runs on.
PageSize == 4096

\* unsafe.Sizeof(uintptr(0)) on a 64-bit platform.
PtrSize == 8

\* How many addresses mmap chooses from.
NumAddrs == 3

Min(a, b) == IF a < b THEN a ELSE b

Pow2(n) == 2 ^ n

(***************************************************************************)
(* 32-bit words as four bytes, most significant first.                     *)
(***************************************************************************)
\* binary.BigEndian.Uint32 of four bytes of the bytecode: the word itself.
Word(b3, b2, b1, b0) == <<b3, b2, b1, b0>>

ZeroWord == <<0, 0, 0, 0>>

\* int32(v.Raw): the signed reading of a word.
ToInt32(w) ==
    (IF w[1] >= 128 THEN w[1] - 256 ELSE w[1]) * 16777216
        + w[2] * 65536 + w[3] * 256 + w[4]

\* uint32(val) of an int32: the word of a signed value in -2^31 .. 2^31-1.
FromInt32(i) ==
    LET hi == i \div 16777216      \* floor: -128..127
        lo == i % 16777216
    IN  <<hi % 256, lo \div 65536, (lo \div 256) % 256, lo % 256>>

\* Byte i (1 = least significant) of a word.
LimbLE(w, i) == w[5 - i]

\* a + b modulo 2^32 (Go's int32 addition wraps).
AddWord(a, b) ==
    LET s1 == LimbLE(a, 1) + LimbLE(b, 1)
        s2 == LimbLE(a, 2) + LimbLE(b, 2) + s1 \div 256
        s3 == LimbLE(a, 3) + LimbLE(b, 3) + s2 \div 256
        s4 == LimbLE(a, 4) + LimbLE(b, 4) + s3 \div 256
    IN  <<s4 % 256, s3 % 256, s2 % 256, s1 % 256>>

\* -b modulo 2^32: the complement plus one.
NegWord(b) ==
    AddWord(<<255 - b[1], 255 - b[2], 255 - b[3], 255 - b[4]>>, <<0, 0, 0, 1>>)

\* a - b modulo 2^32 (Go's int32 subtraction wraps).
SubWord(a, b) == AddWord(a, NegWord(b))

\* a * b modulo 2^32 (Go's int32 multiplication wraps): schoolbook on bytes.
MulWord(a, b) ==
    LET p(i, j) == LimbLE(a, i) * LimbLE(b, j)
        c1 == p(1, 1)
        c2 == p(1, 2) + p(2, 1) + c1 \div 256
        c3 == p(1, 3) + p(2, 2) + p(3, 1) + c2 \div 256
        c4 == p(1, 4) + p(2, 3) + p(3, 2) + p(4, 1) + c3 \div 256
    IN  <<c4 % 256, c3 % 256, c2 % 256, c1 % 256>>

MinInt32 == -2147483647 - 1

\* Go's x / y on int32, y # 0: the quotient truncated toward zero, and
\* MinInt32 / -1 = MinInt32 (the language's two's-complement overflow rule).
DivInt32(x, y) ==
    IF y = -1 THEN ToInt32(NegWord(FromInt32(x)))
    ELSE IF y = MinInt32 THEN (IF x = MinInt32 THEN 1 ELSE 0)
    ELSE LET ay == IF y < 0 THEN 0 - y ELSE y
             fl == x \div ay                 \* floor(x / |y|)
             tr == IF x < 0 /\ x % ay # 0 THEN fl + 1 ELSE fl
         IN  IF y < 0 THEN 0 - tr ELSE tr

(***************************************************************************)
(* float32: math.Float32frombits / math.Float32bits are bit casts, so a    *)
(* float32 is its word; the operations below compute on the IEEE-754       *)
(* fields of the word as the hardware does (round to nearest, ties to      *)
(* even).  They are defined on the finite operands whose exact result fits *)
(* TLC's integers; outside of that they have no value (TLC stops with an   *)
(* error rather than continue with a wrong one).                           *)
(***************************************************************************)
Unsupported == CHOOSE x \in {} : TRUE

F32Sign(w) == w[1] \div 128

F32Exp(w) == (w[1] % 128) * 2 + w[2] \div 128

F32Frac(w) == (w[2] % 128) * 65536 + w[3] * 256 + w[4]

F32IsNaN(w) == F32Exp(w) = 255 /\ F32Frac(w) # 0

\* The 31 bits below the sign: they order the magnitudes of non-NaN floats.
F32Mag(w) == (w[1] % 128) * 16777216 + w[2] * 65536 + w[3] * 256 + w[4]

\* f == 0 in Go: true of +0 and of -0.
F32IsZero(w) == F32Mag(w) = 0

F32Key(w) == IF F32Sign(w) = 1 THEN 0 - F32Mag(w) ELSE F32Mag(w)

\* Go's a < b, a <= b and a == b on float32: false when either is a NaN.
F32Less(a, b) == ~F32IsNaN(a) /\ ~F32IsNaN(b) /\ F32Key(a) < F32Key(b)

F32LessEq(a, b) == ~F32IsNaN(a) /\ ~F32IsNaN(b) /\ F32Key(a) <= F32Key(b)

F32Eq(a, b) == ~F32IsNaN(a) /\ ~F32IsNaN(b) /\ F32Key(a) = F32Key(b)

RECURSIVE BitLen(_)
BitLen(n) == IF n = 0 THEN 0 ELSE 1 + BitLen(n \div 2)

\* m * 2^e with the factors of two moved out of m.
RECURSIVE Reduce(_, _)
Reduce(m, e) == IF m # 0 /\ m % 2 = 0 THEN Reduce(m \div 2, e + 1) ELSE <<m, e>>

\* A finite float32 as (-1)^s * m * 2^e, m odd or zero.
F32Dec(w) ==
    LET ex == F32Exp(w)
        fr == F32Frac(w)
        r  == Reduce(IF ex = 0 THEN fr ELSE 8388608 + fr,
                     IF ex = 0 THEN -149 ELSE ex - 150)
    IN  [s |-> F32Sign(w), m |-> r[1], e |-> r[2]]

F32Bits(s, biased, frac) ==
    <<s * 128 + biased \div 2, (biased % 2) * 128 + frac \div 65536,
      (frac \div 256) % 256, frac % 256>>

\* The float32 nearest to (-1)^s * (M + d) * 2^e, M > 0, where 0 < d < 1 when
\* sticky and d = 0 otherwise: round to nearest, ties to even.
F32Round(s, M, e, sticky) ==
    LET n     == BitLen(M)
        shift == n - 24
        q0    == IF shift > 0 THEN M \div Pow2(shift) ELSE M * Pow2(0 - shift)
        r     == IF shift > 0 THEN M % Pow2(shift) ELSE 0
        half  == IF shift > 0 THEN Pow2(shift - 1) ELSE 0
        up    == shift > 0 /\ (r > half \/ (r = half /\ (sticky \/ q0 % 2 = 1)))
        q1    == IF up THEN q0 + 1 ELSE q0
        q     == IF q1 = 16777216 THEN 8388608 ELSE q1
        E     == e + shift + (IF q1 = 16777216 THEN 1 ELSE 0)
        biased == E + 150
    IN  IF sticky /\ shift < 1 THEN Unsupported
        ELSE IF biased >= 255 THEN F32Bits(s, 255, 0)
        ELSE IF biased <= 0 THEN Unsupported
        ELSE F32Bits(s, biased, q - 8388608)

F32Neg(w) == <<(w[1] + 128) % 256, w[2], w[3], w[4]>>

\* a + b on float32.
F32Add(a, b) ==
    LET x == F32Dec(a)
        y == F32Dec(b)
        e == Min(x.e, y.e)
        X == (IF x.s = 1 THEN -1 ELSE 1) * x.m * Pow2(x.e - e)
        Y == (IF y.s = 1 THEN -1 ELSE 1) * y.m * Pow2(y.e - e)
        R == X + Y
    IN  IF F32Exp(a) = 255 \/ F32Exp(b) = 255 THEN Unsupported
        ELSE IF x.m = 0 /\ y.m = 0
            THEN F32Bits(IF x.s = 1 /\ y.s = 1 THEN 1 ELSE 0, 0, 0)
        ELSE IF y.m = 0 THEN a
        ELSE IF x.m = 0 THEN b
        ELSE IF BitLen(x.m) + (x.e - e) > 29 \/ BitLen(y.m) + (y.e - e) > 29
            THEN Unsupported
        ELSE IF R = 0 THEN F32Bits(0, 0, 0)
        ELSE F32Round(IF R < 0 THEN 1 ELSE 0, IF R < 0 THEN 0 - R ELSE R, e, FALSE)

\* a - b on float32.
F32Sub(a, b) == F32Add(a, F32Neg(b))

\* a / b on float32, b not zero.
F32Div(a, b) ==
    LET x == F32Dec(a)
        y == F32Dec(b)
        s == (x.s + y.s) % 2
        k == 30 - BitLen(x.m)
        N == x.m * Pow2(k)
        Q == N \div y.m
        rem == N % y.m
    IN  IF F32Exp(a) = 255 \/ F32Exp(b) = 255 \/ y.m = 0 THEN Unsupported
        ELSE IF x.m = 0 THEN F32Bits(s, 0, 0)
        ELSE F32Round(s, Q, x.e - y.e - k, rem # 0)

\* a * b on float32.
F32Mul(a, b) ==
    LET x == F32Dec(a)
        y == F32Dec(b)
        s == (x.s + y.s) % 2
    IN  IF F32Exp(a) = 255 \/ F32Exp(b) = 255 THEN Unsupported
        ELSE IF x.m = 0 \/ y.m = 0 THEN F32Bits(s, 0, 0)
        ELSE IF BitLen(x.m) + BitLen(y.m) > 30 THEN Unsupported
        ELSE F32Round(s, x.m * y.m, x.e + y.e, FALSE)

(***************************************************************************)
(* Values: src/unnamed/part_000 (package common).                          *)
(***************************************************************************)
Int32Value(i) == [Kind |-> ValueInt32, Raw |-> FromInt32(i), Ptr |-> 0]

\* The argument is the float32 as its word (math.Float32bits is a bit cast).
Float32Value(w) == [Kind |-> ValueFloat32, Raw |-> w, Ptr |-> 0]

PtrValue(ptr) == [Kind |-> ValuePtr, Raw |-> ZeroWord, Ptr |-> ptr]

ByteValue(b) == [Kind |-> ValueByte, Raw |-> <<0, 0, 0, b>>, Ptr |-> 0]

\* The zero Value of Go (var value Value).
ZeroValue == [Kind |-> ValueInt32, Raw |-> ZeroWord, Ptr |-> 0]

\* Equals(v1, v2), v1.Lesser(v2) and v1.LesserOrEqual(v2): "ok" is false where
\* the function calls log.Fatal (kinds differ, or a kind that is neither
\* Int32 nor Float32).
Equals(v1, v2) ==
    IF v1.Kind # v2.Kind THEN [ok |-> FALSE, r |-> FALSE, msg |-> "type mismatch for comparison"]
    ELSE IF v1.Kind = ValueFloat32 THEN [ok |-> TRUE, r |-> F32Eq(v1.Raw, v2.Raw), msg |-> ""]
    ELSE IF v1.Kind = ValueInt32 THEN [ok |-> TRUE, r |-> ToInt32(v1.Raw) = ToInt32(v2.Raw), msg |-> ""]
    ELSE [ok |-> FALSE, r |-> FALSE, msg |-> "Unuspported types"]

LesserOrEqual(v1, v2) ==
    IF v1.Kind # v2.Kind THEN [ok |-> FALSE, r |-> FALSE, msg |-> "Type mismatch for comaprison"]
    ELSE IF v1.Kind = ValueFloat32 THEN [ok |-> TRUE, r |-> F32LessEq(v1.Raw, v2.Raw), msg |-> ""]
    ELSE IF v1.Kind = ValueInt32 THEN [ok |-> TRUE, r |-> ToInt32(v1.Raw) <= ToInt32(v2.Raw), msg |-> ""]
    ELSE [ok |-> FALSE, r |-> FALSE, msg |-> "Unsupported types"]

Lesser(v1, v2) ==
    IF v1.Kind # v2.Kind THEN [ok |-> FALSE, r |-> FALSE, msg |-> "Type mismatch for comaprison"]
    ELSE IF v1.Kind = ValueFloat32 THEN [ok |-> TRUE, r |-> F32Less(v1.Raw, v2.Raw), msg |-> ""]
    ELSE IF v1.Kind = ValueInt32 THEN [ok |-> TRUE, r |-> ToInt32(v1.Raw) < ToInt32(v2.Raw), msg |-> ""]
    ELSE [ok |-> FALSE, r |-> FALSE, msg |-> "Unsupported types"]

(***************************************************************************)
(* The heap: src/heap/heap.go, lines 112-480 (the current revision).       *)
(* Memory maps an address to its region.  A region is its length in bytes, *)
(* the bytes written to it (an mmap'ed page reads 0 where nothing was      *)
(* written) and, for a struct, the StructType written at offset 1.         *)
(***************************************************************************)
NoStruct == [Name |-> <<>>, Fields |-> <<>>, Size |-> 0]

EmptyData == [o \in {} |-> 0]

ReadByte(reg, off) == IF off \in DOMAIN reg.data THEN reg.data[off] ELSE 0

\* The region with bytes bs written from offset off on.
WriteBytes(reg, off, bs) ==
    [reg EXCEPT !.data =
        [o \in DOMAIN reg.data \cup {off + i - 1 : i \in 1..Len(bs)} |->
            IF o >= off /\ o < off + Len(bs) THEN bs[o - off + 1] ELSE reg.data[o]]]

\* A word as the four bytes of a little-endian store, and back.
WordLE(w) == <<w[4], w[3], w[2], w[1]>>

ReadWordLE(reg, off) ==
    <<ReadByte(reg, off + 3), ReadByte(reg, off + 2), ReadByte(reg, off + 1), ReadByte(reg, off)>>

\* A uintptr as the eight bytes of a little-endian store, and back.  The
\* addresses of the model are below 2^31.
PtrLE(p) ==
    <<p % 256, (p \div 256) % 256, (p \div 65536) % 256, p \div 16777216, 0, 0, 0, 0>>

ReadPtrLE(reg, off) ==
    IF \E i \in 4..7 : ReadByte(reg, off + i) # 0 \/ ReadByte(reg, off + 3) >= 128
    THEN Unsupported
    ELSE ReadByte(reg, off) + ReadByte(reg, off + 1) * 256
            + ReadByte(reg, off + 2) * 65536 + ReadByte(reg, off + 3) * 16777216

\* Whether [a, a+n) meets no live region: where mmap may place a new one.
FreeRange(mem, a, n) ==
    \A q \in DOMAIN mem : a + n <= q \/ q + mem[q].len <= a

\* Allocate that always places the region at the first address.
AllocateAtFirst(mem, size, a) ==
    LET length == PageSize * ((size + PageSize - 1) \div PageSize)
    IN  IF size <= 0 THEN [mem |-> mem, ptr |-> 0, err |-> "mmap failed"]
        ELSE [mem |-> [q \in DOMAIN mem \cup {PageSize} |->
                          IF q = PageSize
                          THEN [len |-> length, data |-> EmptyData, desc |-> NoStruct]
                          ELSE mem[q]],
              ptr |-> PageSize, err |-> ""]

\* Heap.Allocate(size) when mmap returns address a (0: mmap finds no room);
\* size is the int32 the interpreter popped.  syscall.Mmap refuses a length
\* that is not positive.
Allocate(mem, size, a) ==
    LET pagesRequired == (size + PageSize - 1) \div PageSize
        length == PageSize * pagesRequired
    IN  IF size <= 0 \/ a = 0 \/ ~FreeRange(mem, a, length)
        THEN [mem |-> mem, ptr |-> 0, err |-> "mmap failed"]
        ELSE [mem |-> [q \in DOMAIN mem \cup {a} |->
                          IF q = a THEN [len |-> length, data |-> EmptyData, desc |-> NoStruct]
                          ELSE mem[q]],
              ptr |-> a, err |-> ""]

\* Free that empties the whole map.
FreeClearsHeap(mem, ptr) ==
    IF ptr \notin DOMAIN mem
    THEN [mem |-> mem, err |-> "Failed to free memory at address"]
    ELSE [mem |-> [q \in {} |-> mem[ptr]], err |-> ""]

\* Free that reports success and keeps the entry.
FreeLeavesRegion(mem, ptr) ==
    IF ptr \notin DOMAIN mem
    THEN [mem |-> mem, err |-> "Failed to free memory at address"]
    ELSE [mem |-> mem, err |-> ""]

\* Heap.Free(ptr), lines 151-161.
Free(mem, ptr) ==
    IF ptr \notin DOMAIN mem
    THEN [mem |-> mem, err |-> "Failed to free memory at address"]
    ELSE [mem |-> [q \in DOMAIN mem \ {ptr} |-> mem[q]], err |-> ""]

StoreValue(mem, ptr, value) ==
    IF ptr \notin DOMAIN mem THEN [mem |-> mem, err |-> "invalid memory address"]
    ELSE
    LET tagged == WriteBytes(mem[ptr], 0, <<value.Kind>>)
        requiredSize == IF value.Kind \in {ValueInt32, ValueFloat32} THEN 5
                        ELSE IF value.Kind = ValuePtr THEN 1 + PtrSize
                        ELSE 0
        written == IF value.Kind \in {ValueInt32, ValueFloat32}
                       THEN WriteBytes(tagged, 1, WordLE(value.Raw))
                   ELSE IF value.Kind = ValuePtr
                       THEN WriteBytes(tagged, 1, PtrLE(value.Ptr))
                   ELSE tagged
    IN  IF tagged.len < requiredSize
        THEN [mem |-> [mem EXCEPT ![ptr] = tagged], err |-> "Memory access out of bounds"]
        ELSE [mem |-> [mem EXCEPT ![ptr] = written], err |-> ""]

LoadValue(mem, ptr) ==
    IF ptr \notin DOMAIN mem THEN [value |-> ZeroValue, err |-> "Invalid memory address"]
    ELSE
    LET reg == mem[ptr]
        kind == ReadByte(reg, 0)
    IN  IF reg.len < 1 THEN [value |-> ZeroValue, err |-> "memory access out of bounds"]
        ELSE IF kind \in {ValueInt32, ValueFloat32}
            THEN IF reg.len < 5
                 THEN [value |-> ZeroValue, err |-> "memory access out of bounds"]
                 ELSE [value |-> [Kind |-> kind, Raw |-> ReadWordLE(reg, 1), Ptr |-> 0],
                       err |-> ""]
        ELSE IF kind = ValuePtr
            THEN IF reg.len < 1 + PtrSize
                 THEN [value |-> ZeroValue, err |-> "memory access out of bounds"]
                 ELSE [value |-> [Kind |-> kind, Raw |-> ZeroWord, Ptr |-> ReadPtrLE(reg, 1)],
                       err |-> ""]
        ELSE [value |-> [Kind |-> kind, Raw |-> ZeroWord, Ptr |-> 0], err |-> ""]

\* GetElementSize with every supported kind taken for four bytes wide.
GetElementSizeWord(kind) ==
    IF kind \in {ValueFloat32, ValueInt32, ValuePtr, ValueString, ValueArray, ValueStruct}
    THEN 4 ELSE 0

\* GetElementSize(kind): 0 stands for the log.Fatalf of an unsupported kind.
GetElementSize(kind) ==
    IF kind \in {ValueFloat32, ValueInt32} THEN 4
    ELSE IF kind \in {ValuePtr, ValueString, ValueArray, ValueStruct} THEN PtrSize
    ELSE 0

\* Heap.AllocateStruct(str) when mmap returns address a.
AllocateStruct(mem, str, a) ==
    LET r == Allocate(mem, 1 + str.Size, a)
    IN  IF r.err # "" THEN r
        ELSE [r EXCEPT !.mem[a] =
                [WriteBytes(r.mem[a], 0, <<ValueStruct>>) EXCEPT !.desc = str]]

\* AllocateString that counts a terminating NUL into the stored length.
AllocateStringWithNul(mem, s, a) ==
    LET r == Allocate(mem, 5 + Len(s), a)
    IN  IF r.err # "" THEN r
        ELSE [r EXCEPT !.mem[a] =
                WriteBytes(WriteBytes(WriteBytes(r.mem[a], 0, <<ValueString>>),
                                      1, WordLE(FromInt32(Len(s) + 1))),
                           5, s)]

\* Heap.AllocateString(s) when mmap returns address a; s is a sequence of
\* bytes.  Tag at offset 0, int32 length at 1..4, the bytes from 5 on.
AllocateString(mem, s, a) ==
    LET r == Allocate(mem, 5 + Len(s), a)
    IN  IF r.err # "" THEN r
        ELSE [r EXCEPT !.mem[a] =
                WriteBytes(WriteBytes(WriteBytes(r.mem[a], 0, <<ValueString>>),
                                      1, WordLE(FromInt32(Len(s)))),
                           5, s)]

\* Heap.LoadString(ptr).  A negative stored length passes the bounds test
\* and then fails the slice expression mem[5 : 5+length].
LoadString(mem, ptr) ==
    IF ptr \notin DOMAIN mem THEN [str |-> <<>>, err |-> "Invalid memory address"]
    ELSE
    LET reg == mem[ptr]
        length == ToInt32(ReadWordLE(reg, 1))
    IN  IF ReadByte(reg, 0) # ValueString
            THEN [str |-> <<>>, err |-> "Not a string value"]
        ELSE IF reg.len < 5 + length
            THEN [str |-> <<>>, err |-> "memory access out of bounds"]
        ELSE IF length < 0
            THEN [str |-> <<>>, err |-> "panic: slice bounds out of range"]
        ELSE [str |-> [i \in 1..length |-> ReadByte(reg, 4 + i)], err |-> ""]

\* Heap.AllocateArray(elementKind, length) when mmap returns address a.
\* Tag at 0, element kind at 1, int32 length at 2..5, elements from 6 on.
\* The size is computed in uintptr and handed to Allocate as an int, so a
\* negative length gives the integer 6 + elementSize * length.
AllocateArray(mem, elementKind, length, a) ==
    LET elementSize == GetElementSize(elementKind)
        r == Allocate(mem, 6 + elementSize * length, a)
    IN  IF elementSize = 0
            THEN [mem |-> mem, ptr |-> 0, err |-> "Unsupported array element type"]
        ELSE IF r.err # "" THEN r
        ELSE [r EXCEPT !.mem[a] =
                WriteBytes(WriteBytes(r.mem[a], 0, <<ValueArray, elementKind>>),
                           2, WordLE(FromInt32(length)))]

\* The offset of element index in an array region; an element outside the
\* mapping (a header that STOREH rewrote) is beyond what the model covers.
ElementOffset(reg, index, elementSize) ==
    IF 6 + index * elementSize + elementSize > reg.len THEN Unsupported
    ELSE 6 + index * elementSize

\* SetArrayElement that writes the element before it compares the kinds.
SetArrayElementWritesFirst(mem, arrayPtr, index, value) ==
    IF arrayPtr \notin DOMAIN mem THEN [mem |-> mem, err |-> "Invalid memory access"]
    ELSE
    LET reg == mem[arrayPtr]
        elementKind == ReadByte(reg, 1)
        length == ToInt32(ReadWordLE(reg, 2))
        elementSize == GetElementSize(elementKind)
    IN  IF ReadByte(reg, 0) # ValueArray THEN [mem |-> mem, err |-> "Not an array"]
        ELSE IF index < 0 \/ index >= length
            THEN [mem |-> mem, err |-> "Array index out of bounds!"]
        ELSE IF elementSize = 0
            THEN [mem |-> mem, err |-> "Unsupported array element type"]
        ELSE IF elementKind \in {ValuePtr, ValueString} /\ elementKind = value.Kind
            THEN [mem |-> [mem EXCEPT ![arrayPtr] =
                              WriteBytes(reg, ElementOffset(reg, index, elementSize),
                                         PtrLE(value.Ptr))],
                  err |-> ""]
        ELSE [mem |-> [mem EXCEPT ![arrayPtr] =
                          WriteBytes(reg, ElementOffset(reg, index, elementSize),
                                     WordLE(value.Raw))],
              err |-> IF elementKind # value.Kind THEN "Type mismatch" ELSE ""]

\* Heap.SetArrayElement(arrayPtr, index, value); index is an int32.
SetArrayElement(mem, arrayPtr, index, value) ==
    IF arrayPtr \notin DOMAIN mem THEN [mem |-> mem, err |-> "Invalid memory access"]
    ELSE
    LET reg == mem[arrayPtr]
        elementKind == ReadByte(reg, 1)
        length == ToInt32(ReadWordLE(reg, 2))
        elementSize == GetElementSize(elementKind)
    IN  IF ReadByte(reg, 0) # ValueArray THEN [mem |-> mem, err |-> "Not an array"]
        ELSE IF index < 0 \/ index >= length
            THEN [mem |-> mem, err |-> "Array index out of bounds!"]
        ELSE IF elementKind # value.Kind THEN [mem |-> mem, err |-> "Type mismatch"]
        ELSE IF elementSize = 0
            THEN [mem |-> mem, err |-> "Unsupported array element type"]
        ELSE IF elementKind \in {ValueInt32, ValueFloat32}
            THEN [mem |-> [mem EXCEPT ![arrayPtr] =
                              WriteBytes(reg, ElementOffset(reg, index, elementSize),
                                         WordLE(value.Raw))],
                  err |-> ""]
        ELSE IF elementKind \in {ValuePtr, ValueString}
            THEN [mem |-> [mem EXCEPT ![arrayPtr] =
                              WriteBytes(reg, ElementOffset(reg, index, elementSize),
                                         PtrLE(value.Ptr))],
                  err |-> ""]
        ELSE [mem |-> mem, err |-> "Unsupported element type"]

\* Heap.GetArrayElement(arrayPtr, index).
GetArrayElement(mem, arrayPtr, index) ==
    IF arrayPtr \notin DOMAIN mem THEN [value |-> ZeroValue, err |-> "Invalid memory access"]
    ELSE
    LET reg == mem[arrayPtr]
        elementKind == ReadByte(reg, 1)
        length == ToInt32(ReadWordLE(reg, 2))
        elementSize == GetElementSize(elementKind)
    IN  IF ReadByte(reg, 0) # ValueArray THEN [value |-> ZeroValue, err |-> "Not an array"]
        ELSE IF index < 0 \/ index >= length
            THEN [value |-> ZeroValue, err |-> "Array index out of bounds"]
        ELSE IF elementSize = 0
            THEN [value |-> ZeroValue, err |-> "Unsupported array element type"]
        ELSE IF elementKind \in {ValueInt32, ValueFloat32}
            THEN [value |-> [Kind |-> elementKind,
                             Raw |-> ReadWordLE(reg, ElementOffset(reg, index, elementSize)),
                             Ptr |-> 0],
                  err |-> ""]
        ELSE IF elementKind \in {ValuePtr, ValueString}
            THEN [value |-> [Kind |-> elementKind, Raw |-> ZeroWord,
                             Ptr |-> ReadPtrLE(reg, ElementOffset(reg, index, elementSize))],
                  err |-> ""]
        ELSE [value |-> ZeroValue, err |-> "Unsupported element type"]

\* unsafe.Sizeof(StructType{}) on a 64-bit build: a string, a slice, a uint
\* and a map.
SizeofStructType == 56

\* The StructType that AllocateStruct wrote at offset 1 of a struct region.
\* A descriptor that a later STOREH wrote over is beyond what the model
\* covers.
StructTypeOf(reg) ==
    IF \E o \in DOMAIN reg.data : o >= 1 /\ o <= SizeofStructType THEN Unsupported
    ELSE reg.desc

\* The index of the first field called fieldName, 0 when there is none.
FieldIndex(structType, fieldName) ==
    LET found == {i \in DOMAIN structType.Fields : structType.Fields[i].Name = fieldName}
    IN  IF found = {} THEN 0 ELSE CHOOSE i \in found : \A j \in found : i <= j

\* Every field placed where the first one is.
FieldOffsetOfFirst(reg, field) == 1 + SizeofStructType

\* The offset of a field's data in a struct region.
FieldOffset(reg, field) ==
    IF 1 + SizeofStructType + field.Offset + PtrSize > reg.len THEN Unsupported
    ELSE 1 + SizeofStructType + field.Offset

\* Heap.GetStructField(structPtr, fieldName).
GetStructField(mem, structPtr, fieldName) ==
    IF structPtr \notin DOMAIN mem THEN [value |-> ZeroValue, err |-> "Invalid memory address"]
    ELSE IF ReadByte(mem[structPtr], 0) # ValueStruct
        THEN [value |-> ZeroValue, err |-> "Not a struct"]
    ELSE
    LET reg == mem[structPtr]
        structType == StructTypeOf(reg)
        i == FieldIndex(structType, fieldName)
        field == structType.Fields[i]
    IN  IF i = 0 THEN [value |-> ZeroValue, err |-> "Field is not found on struct"]
        ELSE IF field.Type \in {ValueFloat32, ValueInt32}
            THEN [value |-> [Kind |-> field.Type,
                             Raw |-> ReadWordLE(reg, FieldOffset(reg, field)), Ptr |-> 0],
                  err |-> ""]
        ELSE IF field.Type \in {ValuePtr, ValueString, ValueStruct, ValueArray}
            THEN [value |-> [Kind |-> field.Type, Raw |-> ZeroWord,
                             Ptr |-> ReadPtrLE(reg, FieldOffset(reg, field))],
                  err |-> ""]
        ELSE [value |-> ZeroValue, err |-> "Unsupported field type"]

\* Heap.SetStructureField(structPtr, fieldName, value).
SetStructureField(mem, structPtr, fieldName, value) ==
    IF structPtr \notin DOMAIN mem THEN [mem |-> mem, err |-> "Invalid memory address"]
    ELSE IF ReadByte(mem[structPtr], 0) # ValueStruct
        THEN [mem |-> mem, err |-> "Not a struct"]
    ELSE
    LET reg == mem[structPtr]
        structType == StructTypeOf(reg)
        i == FieldIndex(structType, fieldName)
        field == structType.Fields[i]
    IN  IF i = 0 THEN [mem |-> mem, err |-> "Field not found in struct"]
        ELSE IF field.Type # value.Kind THEN [mem |-> mem, err |-> "Type mismatch"]
        ELSE IF field.Type \in {ValueFloat32, ValueInt32}
            THEN [mem |-> [mem EXCEPT ![structPtr] =
                              WriteBytes(reg, FieldOffset(reg, field), WordLE(value.Raw))],
                  err |-> ""]
        ELSE IF field.Type \in {ValuePtr, ValueString, ValueStruct, ValueArray}
            THEN [mem |-> [mem EXCEPT ![structPtr] =
                              WriteBytes(reg, FieldOffset(reg, field), PtrLE(value.Ptr))],
                  err |-> ""]
        ELSE [mem |-> mem, err |-> "Unsupported type"]

(***************************************************************************)
(* The state of the VM (type VM, src/vm/vm.go lines 27-35).  fatal is ""   *)
(* while the process lives and the message once log.Fatal (or a runtime    *)
(* panic) has ended it.                                                    *)
(*                                                                         *)
(* History variables, which no action reads: op is the opcode the last     *)
(* step executed (-1 before the first), pre the state (interpreter, live   *)
(* and freed) that step started from, with the opcode of the step before   *)
(* it and the offset that one was fetched from, calls the record of each   *)
(* CALL whose frame is still on the call stack (one entry per frame above  *)
(* the outermost), stored the value last written by a successful STOREH to *)
(* each live address, live                                                 *)
(* the addresses that an allocating opcode pushed and no FREE has taken    *)
(* since, freed the addresses that a FREE has ever taken, and written, for  *)
(* each frame of the call stack, the value the last successful STORE in    *)
(* that frame wrote to each slot.                                          *)
(*                                                                         *)
(* The assembler's side of runFile (src/main.go lines 21-44): program is   *)
(* the parsed Program and asm the code generator, with status "none" when  *)
(* the VM was built on bytecode that no Program of the model produced,     *)
(* "pending" before Generate has run and "done" after.                     *)
(*                                                                         *)
(* output is what has been written to os.Stdout so far: a byte of          *)
(* WRITE_BYTE or a line of fmt.Printf/Println.                             *)
(***************************************************************************)
VARIABLES Bytecode, Functions, Structs, Ip, Running, CallStack, Memory, fatal,
          op, pre, calls, stored, live, freed, program, asm, output, written

vars == <<Bytecode, Functions, Structs, Ip, Running, CallStack, Memory, fatal,
          op, pre, calls, stored, live, freed, program, asm, output, written>>

\* Offset p of a bytecode (Go's bc[p]).
At(bc, p) == bc[p + 1]

InRange(bc, p) == p >= 0 /\ p < Len(bc)

\* binary.BigEndian.Uint16(bc[p : p+2]).
Uint16At(bc, p) == At(bc, p) * 256 + At(bc, p + 1)

\* bc[from : to], a string of the bytecode.
Slice(bc, from, to) == [i \in 1..(to - from) |-> At(bc, from + i - 1)]

\* The first offset >= p that holds a 0 byte, or Len(bc) when there is none.
RECURSIVE FindNul(_, _)
FindNul(bc, p) ==
    IF p >= Len(bc) \/ At(bc, p) = 0 THEN p ELSE FindNul(bc, p + 1)

(***************************************************************************)
(* VM.buildFunctionTable, src/vm/vm.go lines 81-127: acc is the loop's     *)
(* state (ip, Functions, mainAddr, foundMain, fatal).  Reading past the    *)
(* end of the bytecode is a runtime panic.                                 *)
(***************************************************************************)
RECURSIVE ScanFunctions(_, _)
ScanFunctions(bc, acc) ==
    LET ip == acc.ip IN
    IF acc.fatal # "" \/ ip >= Len(bc) THEN acc
    ELSE IF At(bc, ip) # FUNC THEN ScanFunctions(bc, [acc EXCEPT !.ip = ip + 1])
    ELSE IF ip + 4 >= Len(bc) THEN [acc EXCEPT !.fatal = "panic: index out of range"]
    ELSE
    LET isMain     == At(bc, ip + 1) = FUNC_MAIN
        ParamCount == Uint16At(bc, ip + 2)
        ReturnType == At(bc, ip + 4)
        bodyIp     == ip + 5
        nameEnd    == FindNul(bc, bodyIp)
        Address    == IF ReturnType = ValueStruct THEN nameEnd + 1 ELSE bodyIp
        signature  == [Address |-> Address, ParamCount |-> ParamCount,
                       ReturnType |-> ReturnType,
                       isMain |-> isMain,
                       ReturnStructName |->
                           IF ReturnType = ValueStruct
                           THEN Slice(bc, bodyIp, nameEnd) ELSE <<>>]
    IN  IF isMain /\ acc.foundMain
            THEN [acc EXCEPT !.fatal = "Multiple main functions"]
        ELSE IF isMain /\ ReturnType # ValueVoid
            THEN [acc EXCEPT !.fatal = "Main function should always be void"]
        ELSE ScanFunctions(bc,
                [ip |-> Address,
                 Functions |-> [a \in DOMAIN acc.Functions \cup {Address} |->
                                   IF a = Address THEN signature ELSE acc.Functions[a]],
                 mainAddr |-> IF isMain THEN Address ELSE acc.mainAddr,
                 foundMain |-> acc.foundMain \/ isMain,
                 fatal |-> ""])

\* buildFunctionTable without the final test that a main was found.
buildFunctionTableAnyMain(bc) ==
    LET r == ScanFunctions(bc, [ip |-> 0, Functions |-> [a \in {} |-> 0],
                                mainAddr |-> 0, foundMain |-> FALSE, fatal |-> ""])
    IN  IF r.fatal # "" THEN [Functions |-> r.Functions, Ip |-> 0, fatal |-> r.fatal]
        ELSE [Functions |-> r.Functions, Ip |-> r.mainAddr, fatal |-> ""]

buildFunctionTable(bc) ==
    LET r == ScanFunctions(bc, [ip |-> 0, Functions |-> [a \in {} |-> 0],
                                mainAddr |-> 0, foundMain |-> FALSE, fatal |-> ""])
    IN  IF r.fatal # "" THEN [Functions |-> r.Functions, Ip |-> 0, fatal |-> r.fatal]
        ELSE IF ~r.foundMain
            THEN [Functions |-> r.Functions, Ip |-> 0, fatal |-> "No main function found"]
        ELSE [Functions |-> r.Functions, Ip |-> r.mainAddr, fatal |-> ""]

(***************************************************************************)
(* VM.buildStructsTable, src/vm/vm.go lines 129-181.  ScanFields is the    *)
(* inner loop over the fields of one DEFSTRUCT record: acc is (ip, fields, *)
(* currentOffset, fatal).                                                  *)
(***************************************************************************)
RECURSIVE ScanFields(_, _, _)
ScanFields(bc, n, acc) ==
    IF n = 0 \/ acc.fatal # "" THEN acc
    ELSE
    LET nameEnd == FindNul(bc, acc.ip)
        isArray == InRange(bc, nameEnd + 1) /\ At(bc, nameEnd + 1) = ValueArray
        last    == IF isArray THEN nameEnd + 2 ELSE nameEnd + 1
    IN  IF ~InRange(bc, last)
            THEN [acc EXCEPT !.fatal = "panic: index out of range"]
        ELSE IF GetElementSize(At(bc, nameEnd + 1)) = 0
            THEN [acc EXCEPT !.fatal = "Unsupported array element type"]
        ELSE ScanFields(bc, n - 1,
                [ip |-> last + 1,
                 fields |-> Append(acc.fields,
                     [Name |-> Slice(bc, acc.ip, nameEnd),
                      Type |-> At(bc, nameEnd + 1),
                      Offset |-> acc.currentOffset,
                      ArrayType |-> IF isArray THEN <<At(bc, nameEnd + 2)>> ELSE <<>>]),
                 currentOffset |-> acc.currentOffset + GetElementSize(At(bc, nameEnd + 1)),
                 fatal |-> ""])

RECURSIVE ScanStructs(_, _)
ScanStructs(bc, acc) ==
    LET ip == acc.ip IN
    IF acc.fatal # "" \/ ip >= Len(bc) THEN acc
    ELSE IF At(bc, ip) # DEFSTRUCT THEN ScanStructs(bc, [acc EXCEPT !.ip = ip + 1])
    ELSE
    LET nameEnd == FindNul(bc, ip + 1)
    IN  IF ~InRange(bc, nameEnd + 1)
            THEN [acc EXCEPT !.fatal = "panic: index out of range"]
        ELSE
        LET structName == Slice(bc, ip + 1, nameEnd)
            f == ScanFields(bc, At(bc, nameEnd + 1),
                    [ip |-> nameEnd + 2, fields |-> <<>>, currentOffset |-> 0, fatal |-> ""])
            structType == [Name |-> structName, Fields |-> f.fields, Size |-> f.currentOffset]
        IN  IF f.fatal # "" THEN [acc EXCEPT !.fatal = f.fatal]
            ELSE ScanStructs(bc,
                    [ip |-> f.ip,
                     Structs |-> [s \in DOMAIN acc.Structs \cup {structName} |->
                                     IF s = structName THEN structType ELSE acc.Structs[s]],
                     fatal |-> ""])

buildStructsTable(bc) ==
    ScanStructs(bc, [ip |-> 0, Structs |-> [s \in {} |-> NoStruct], fatal |-> ""])

(***************************************************************************)
(* NewVm, src/vm/vm.go lines 48-69, and PushFrame, lines 183-189.          *)
(***************************************************************************)
NoLocals == [k \in {} |-> ZeroValue]

PushFrame(stack, returnAddress) ==
    Append(stack, [Locals |-> NoLocals, ReturnAddress |-> returnAddress, LocalStack |-> <<>>])

NewVm(bc) ==
    LET ft == buildFunctionTable(bc)
        hasStrucs == Len(bc) > 0 /\ At(bc, 0) = DEFSTRUCT
        st == IF ft.fatal = "" /\ hasStrucs THEN buildStructsTable(bc)
              ELSE [ip |-> 0, Structs |-> [s \in {} |-> NoStruct], fatal |-> ""]
        dead == ft.fatal # "" \/ st.fatal # ""
    IN  [Ip |-> ft.Ip, Bytecode |-> bc, Running |-> TRUE,
         Functions |-> ft.Functions, Structs |-> st.Structs,
         CallStack |-> IF dead THEN <<>> ELSE PushFrame(<<>>, Sentinel),
         fatal |-> IF ft.fatal # "" THEN ft.fatal ELSE st.fatal]

(***************************************************************************)
(* The interpreter.  A machine m is the mutable part of the VM:            *)
(* [Ip, CallStack, Memory, Running, fatal].  Each Exec operator is one     *)
(* case of VM.execute, applied to the machine after the opcode byte has    *)
(* been fetched (Ip already past it), and yields the machine it leaves.    *)
(* log.Fatal ends the process where it is called: what the case changed    *)
(* before (values popped, the tag byte written) stays changed.             *)
(***************************************************************************)
Fatal(m, msg) == [m EXCEPT !.fatal = msg]

Failed(m) == m.fatal # ""

\* VM.push, src/vm/vm.go lines 223-230.
push(m, value) ==
    IF Len(m.CallStack) = 0 THEN Fatal(m, "call stack empty")
    ELSE [m EXCEPT !.CallStack[Len(m.CallStack)].LocalStack = Append(@, value)]

\* VM.pop, lines 232-244: the machine without the top value, and the value.
pop(m) ==
    IF Len(m.CallStack) = 0 THEN [m |-> Fatal(m, "call stack empty"), v |-> ZeroValue]
    ELSE LET st == m.CallStack[Len(m.CallStack)].LocalStack
         IN  IF Len(st) = 0 THEN [m |-> Fatal(m, "local stack empty"), v |-> ZeroValue]
             ELSE [m |-> [m EXCEPT !.CallStack[Len(m.CallStack)].LocalStack =
                                        SubSeq(st, 1, Len(st) - 1)],
                   v |-> st[Len(st)]]

\* v1 := v.pop(); v2 := v.pop()
pop2(m) ==
    LET r1 == pop(m) IN
    IF Failed(r1.m) THEN [m |-> r1.m, v1 |-> ZeroValue, v2 |-> ZeroValue]
    ELSE LET r2 == pop(r1.m) IN [m |-> r2.m, v1 |-> r1.v, v2 |-> r2.v]

Panic(m) == Fatal(m, "panic: index out of range")

\* VM.getByte, lines 208-212.
getByte(m) ==
    IF ~InRange(Bytecode, m.Ip) THEN [m |-> Panic(m), b |-> 0]
    ELSE [m |-> [m EXCEPT !.Ip = @ + 1], b |-> At(Bytecode, m.Ip)]

\* VM.extractUInt16, lines 202-206.
extractUInt16(m) ==
    IF ~(m.Ip >= 0 /\ m.Ip + 2 <= Len(Bytecode)) THEN [m |-> Panic(m), n |-> 0]
    ELSE [m |-> [m EXCEPT !.Ip = @ + 2], n |-> Uint16At(Bytecode, m.Ip)]

\* VM.extractUInt32, lines 196-200.
extractUInt32(m) ==
    IF ~(m.Ip >= 0 /\ m.Ip + 4 <= Len(Bytecode)) THEN [m |-> Panic(m), w |-> ZeroWord]
    ELSE [m |-> [m EXCEPT !.Ip = @ + 4],
          w |-> Word(At(Bytecode, m.Ip), At(Bytecode, m.Ip + 1),
                     At(Bytecode, m.Ip + 2), At(Bytecode, m.Ip + 3))]

\* VM.extractString, lines 71-79.
extractString(m) ==
    LET end == FindNul(Bytecode, m.Ip) IN
    IF ~InRange(Bytecode, end) THEN [m |-> Panic(m), str |-> <<>>]
    ELSE [m |-> [m EXCEPT !.Ip = end + 1], str |-> Slice(Bytecode, m.Ip, end)]

\* case HALT, line 319.
ExecHALT(m) == [m EXCEPT !.Running = FALSE]

\* case PUSH, lines 321-337.
ExecPUSH(m) ==
    LET t == getByte(m) IN
    IF Failed(t.m) THEN t.m
    ELSE IF t.b \in {ValueInt32, ValueFloat32}
        THEN LET x == extractUInt32(t.m)
             IN  IF Failed(x.m) THEN x.m
                 ELSE push(x.m, [Kind |-> t.b, Raw |-> x.w, Ptr |-> 0])
    ELSE IF t.b = ValueByte
        THEN LET x == getByte(t.m)
             IN  IF Failed(x.m) THEN x.m
                 ELSE push(x.m, [Kind |-> ValueByte, Raw |-> <<0, 0, 0, x.b>>, Ptr |-> 0])
    ELSE Fatal(t.m, "Unsupported type in PUSH")

\* case POP, lines 338-340.
ExecPOP(m) == pop(m).m

\* case DUP, lines 658-661.
ExecDUP(m) ==
    LET r == pop(m) IN
    IF Failed(r.m) THEN r.m ELSE push(push(r.m, r.v), r.v)

BothKind(p, kind) == p.v1.Kind = kind /\ p.v2.Kind = kind

\* IADD without the check of the kinds.
ExecIADDAnyKind(m) ==
    LET p == pop2(m) IN
    IF Failed(p.m) THEN p.m
    ELSE push(p.m, Int32Value(ToInt32(AddWord(p.v1.Raw, p.v2.Raw))))

\* case IADD, lines 341-349.
ExecIADD(m) ==
    LET p == pop2(m) IN
    IF Failed(p.m) THEN p.m
    ELSE IF ~BothKind(p, ValueInt32) THEN Fatal(p.m, "Values need to be int32")
    ELSE push(p.m, Int32Value(ToInt32(AddWord(p.v1.Raw, p.v2.Raw))))

\* case ISUB, lines 350-358: result := v1.AsInt32() - v2.AsInt32().
ExecISUB(m) ==
    LET p == pop2(m) IN
    IF Failed(p.m) THEN p.m
    ELSE IF ~BothKind(p, ValueInt32) THEN Fatal(p.m, "Values need to be int32")
    ELSE push(p.m, Int32Value(ToInt32(SubWord(p.v1.Raw, p.v2.Raw))))

\* case IMUL, lines 359-367.
ExecIMUL(m) ==
    LET p == pop2(m) IN
    IF Failed(p.m) THEN p.m
    ELSE IF ~BothKind(p, ValueInt32) THEN Fatal(p.m, "Values need to be int32")
    ELSE push(p.m, Int32Value(ToInt32(MulWord(p.v1.Raw, p.v2.Raw))))

\* IDIV with the operands the other way round: result := v1 / v2.
ExecIDIVSwapped(m) ==
    LET p == pop2(m) IN
    IF Failed(p.m) THEN p.m
    ELSE IF ~BothKind(p, ValueInt32) THEN Fatal(p.m, "Values need to be int32")
    ELSE IF ToInt32(p.v2.Raw) = 0 THEN Fatal(p.m, "Division by zero")
    ELSE push(p.m, Int32Value(DivInt32(ToInt32(p.v1.Raw), ToInt32(p.v2.Raw))))

\* IDIV that answers 0 for a zero divisor instead of stopping.
ExecIDIVZeroQuotient(m) ==
    LET p == pop2(m) IN
    IF Failed(p.m) THEN p.m
    ELSE IF ~BothKind(p, ValueInt32) THEN Fatal(p.m, "Values need to be int32")
    ELSE IF ToInt32(p.v1.Raw) = 0 THEN push(p.m, Int32Value(0))
    ELSE push(p.m, Int32Value(DivInt32(ToInt32(p.v2.Raw), ToInt32(p.v1.Raw))))

\* case IDIV, lines 368-379: result := v2.AsInt32() / v1.AsInt32().
ExecIDIV(m) ==
    LET p == pop2(m) IN
    IF Failed(p.m) THEN p.m
    ELSE IF ~BothKind(p, ValueInt32) THEN Fatal(p.m, "Values need to be int32")
    ELSE IF ToInt32(p.v1.Raw) = 0 THEN Fatal(p.m, "Division by zero")
    ELSE push(p.m, Int32Value(DivInt32(ToInt32(p.v2.Raw), ToInt32(p.v1.Raw))))

\* case FADD, lines 380-388.
ExecFADD(m) ==
    LET p == pop2(m) IN
    IF Failed(p.m) THEN p.m
    ELSE IF ~BothKind(p, ValueFloat32) THEN Fatal(p.m, "Values need to be float32")
    ELSE push(p.m, Float32Value(F32Add(p.v1.Raw, p.v2.Raw)))

\* case FSUB, lines 389-397: result := v2.AsFloat32() - v1.AsFloat32().
ExecFSUB(m) ==
    LET p == pop2(m) IN
    IF Failed(p.m) THEN p.m
    ELSE IF ~BothKind(p, ValueFloat32) THEN Fatal(p.m, "Values need to be float32")
    ELSE push(p.m, Float32Value(F32Sub(p.v2.Raw, p.v1.Raw)))

\* case FMUL, lines 398-406.
ExecFMUL(m) ==
    LET p == pop2(m) IN
    IF Failed(p.m) THEN p.m
    ELSE IF ~BothKind(p, ValueFloat32) THEN Fatal(p.m, "Values need to be float32")
    ELSE push(p.m, Float32Value(F32Mul(p.v1.Raw, p.v2.Raw)))

\* case FDIV, lines 407-418: result := v2.AsFloat32() / v1.AsFloat32().
ExecFDIV(m) ==
    LET p == pop2(m) IN
    IF Failed(p.m) THEN p.m
    ELSE IF ~BothKind(p, ValueFloat32) THEN Fatal(p.m, "Values need to be float32")
    ELSE IF F32IsZero(p.v1.Raw) THEN Fatal(p.m, "Division by zero")
    ELSE push(p.m, Float32Value(F32Div(p.v2.Raw, p.v1.Raw)))

\* The end of a comparison case: push Int32 1 or 0, or die in the comparison.
PushBool(m, c, truth) ==
    IF ~c.ok THEN Fatal(m, c.msg)
    ELSE push(m, Int32Value(IF truth THEN 1 ELSE 0))

\* case EQ, lines 579-586.
ExecEQ(m) ==
    LET p == pop2(m) c == Equals(p.v1, p.v2) IN
    IF Failed(p.m) THEN p.m ELSE PushBool(p.m, c, c.r)

\* case NE, lines 587-594.
ExecNE(m) ==
    LET p == pop2(m) c == Equals(p.v1, p.v2) IN
    IF Failed(p.m) THEN p.m ELSE PushBool(p.m, c, ~c.r)

\* case LT, lines 595-602: v2.Lesser(v1).
ExecLT(m) ==
    LET p == pop2(m) c == Lesser(p.v2, p.v1) IN
    IF Failed(p.m) THEN p.m ELSE PushBool(p.m, c, c.r)

\* case LE, lines 603-610: v2.LesserOrEqual(v1).
ExecLE(m) ==
    LET p == pop2(m) c == LesserOrEqual(p.v2, p.v1) IN
    IF Failed(p.m) THEN p.m ELSE PushBool(p.m, c, c.r)

\* GT as the strict comparison: 1 iff v1 < v2.
ExecGTStrict(m) ==
    LET p == pop2(m) c == Lesser(p.v1, p.v2) IN
    IF Failed(p.m) THEN p.m ELSE PushBool(p.m, c, c.r)

\* case GT, lines 611-618: !v2.Lesser(v1).
ExecGT(m) ==
    LET p == pop2(m) c == Lesser(p.v2, p.v1) IN
    IF Failed(p.m) THEN p.m ELSE PushBool(p.m, c, ~c.r)

\* GE with the operands the other way round: v2 < v1 or equal.
ExecGESwapped(m) ==
    LET p == pop2(m) c == Lesser(p.v2, p.v1) e == Equals(p.v1, p.v2) IN
    IF Failed(p.m) THEN p.m ELSE PushBool(p.m, c, c.r \/ e.r)

\* case GE, lines 619-626: v1.Lesser(v2) || Equals(v1, v2).  Equals is not
\* called when Lesser is true; both die on the same operands.
ExecGE(m) ==
    LET p == pop2(m) c == Lesser(p.v1, p.v2) d == Equals(p.v1, p.v2) IN
    IF Failed(p.m) THEN p.m ELSE PushBool(p.m, c, c.r \/ d.r)

\* STORE that writes the slot of the outermost frame.
ExecSTOREOutermost(m) ==
    LET a == extractUInt16(m) IN
    IF Failed(a.m) THEN a.m
    ELSE LET r == pop(a.m) IN
         IF Failed(r.m) THEN r.m
         ELSE LET old == r.m.CallStack[1].Locals
              IN  [r.m EXCEPT !.CallStack[1].Locals =
                      [k \in DOMAIN old \cup {a.n} |-> IF k = a.n THEN r.v ELSE old[k]]]

\* case STORE, lines 476-480.
ExecSTORE(m) ==
    LET a == extractUInt16(m) IN
    IF Failed(a.m) THEN a.m
    ELSE LET r == pop(a.m) IN
         IF Failed(r.m) THEN r.m
         ELSE LET top == Len(r.m.CallStack)
                  old == r.m.CallStack[top].Locals
              IN  [r.m EXCEPT !.CallStack[top].Locals =
                      [k \in DOMAIN old \cup {a.n} |-> IF k = a.n THEN r.v ELSE old[k]]]

\* case LOAD, lines 482-489.
ExecLOAD(m) ==
    LET a == extractUInt16(m) IN
    IF Failed(a.m) THEN a.m
    ELSE IF Len(a.m.CallStack) = 0 THEN Panic(a.m)
    ELSE LET locals == a.m.CallStack[Len(a.m.CallStack)].Locals
         IN  IF a.n \notin DOMAIN locals THEN Fatal(a.m, "Local variable not found")
             ELSE push(a.m, locals[a.n])

\* The n pops of case CALL (lines 498-500): the machine they leave and the
\* popped values, first popped first.
RECURSIVE popArgs(_, _, _)
popArgs(m, n, args) ==
    IF n = 0 THEN [m |-> m, args |-> args]
    ELSE LET r == pop(m) IN
         IF Failed(r.m) THEN [m |-> r.m, args |-> args]
         ELSE popArgs(r.m, n - 1, Append(args, r.v))

\* for i := len(args) - 1; i >= 0; i-- { v.push(args[i]) }  (lines 507-509)
RECURSIVE pushArgs(_, _, _)
pushArgs(m, args, i) ==
    IF i = 0 THEN m ELSE pushArgs(push(m, args[i]), args, i - 1)

\* CALL that copies the arguments and leaves them on the caller's stack.
ExecCALLKeepsArgs(m) ==
    LET a == extractUInt16(m) IN
    IF Failed(a.m) THEN a.m
    ELSE IF a.n \notin DOMAIN Functions THEN Fatal(a.m, "function not found at address")
    ELSE LET p == popArgs(a.m, Functions[a.n].ParamCount, <<>>) IN
         IF Failed(p.m) THEN p.m
         ELSE LET framed == [a.m EXCEPT !.CallStack = PushFrame(@, a.m.Ip)]
              IN  [pushArgs(framed, p.args, Len(p.args)) EXCEPT !.Ip = a.n]

\* CALL that pushes the arguments in the order it popped them.
ExecCALLReversesArgs(m) ==
    LET a == extractUInt16(m) IN
    IF Failed(a.m) THEN a.m
    ELSE IF a.n \notin DOMAIN Functions THEN Fatal(a.m, "function not found at address")
    ELSE LET p == popArgs(a.m, Functions[a.n].ParamCount, <<>>)
             rev == [i \in 1..Len(p.args) |-> p.args[Len(p.args) + 1 - i]]
         IN  IF Failed(p.m) THEN p.m
             ELSE LET framed == [p.m EXCEPT !.CallStack = PushFrame(@, p.m.Ip)]
                  IN  [pushArgs(framed, rev, Len(rev)) EXCEPT !.Ip = a.n]

\* case CALL, lines 491-510.
ExecCALL(m) ==
    LET a == extractUInt16(m) IN
    IF Failed(a.m) THEN a.m
    ELSE IF a.n \notin DOMAIN Functions THEN Fatal(a.m, "function not found at address")
    ELSE LET p == popArgs(a.m, Functions[a.n].ParamCount, <<>>) IN
         IF Failed(p.m) THEN p.m
         ELSE LET framed == [p.m EXCEPT !.CallStack = PushFrame(@, p.m.Ip)]
              IN  [pushArgs(framed, p.args, Len(p.args)) EXCEPT !.Ip = a.n]

\* The functions the loop of case RET (lines 529-537) can stop at: ranging
\* over a Go map visits the entries in an order that differs from run to
\* run, and the loop takes the first entry whose address is not above the
\* RET; -1 stands for "none".
RetCandidates(m) ==
    LET currentFuncStart == m.Ip - 1
        fits == {addr \in DOMAIN Functions :
                    currentFuncStart >= addr /\ currentFuncStart < Len(Bytecode)}
    IN  IF fits = {} THEN {-1} ELSE fits

\* The return type check of case RET, lines 538-560, against the function
\* at address c: "" when the value passes, the message otherwise.
ReturnTypeCheck(m, c, returnValue) ==
    IF c = -1 THEN ""
    ELSE IF Functions[c].ReturnType = returnValue.Kind THEN ""
    ELSE IF Functions[c].ReturnType = ValueStruct /\ returnValue.Kind = ValuePtr
        THEN IF returnValue.Ptr \notin DOMAIN m.Memory
                \/ ReadByte(m.Memory[returnValue.Ptr], 0) # ValueStruct
             THEN "Return type mismatch: expected struct"
             ELSE ""
    ELSE "Return type mismatch"

\* case RET, lines 511-570, when the loop over Functions stops at c.
ExecRET(m, c) ==
    IF Len(m.CallStack) = 0 THEN Fatal(m, "Cannot RET: callstack empty")
    ELSE
    LET depth == Len(m.CallStack)
        calleeFrame == m.CallStack[depth]
        returnValue == calleeFrame.LocalStack[Len(calleeFrame.LocalStack)]
    IN  IF Len(calleeFrame.LocalStack) = 0 THEN Fatal(m, "Cannot RET: local stack empty")
        ELSE IF calleeFrame.ReturnAddress = Sentinel THEN [m EXCEPT !.Running = FALSE]
        ELSE IF ReturnTypeCheck(m, c, returnValue) # ""
            THEN Fatal(m, ReturnTypeCheck(m, c, returnValue))
        ELSE IF depth = 1
            THEN Fatal([m EXCEPT !.CallStack = <<>>],
                       "Cannot RET: callstack empty after popping frame")
        ELSE [m EXCEPT !.CallStack =
                  [SubSeq(m.CallStack, 1, depth - 1) EXCEPT
                      ![depth - 1].LocalStack = Append(@, returnValue)],
              !.Ip = calleeFrame.ReturnAddress]

\* RETV that also empties the operand stack of the frame below.
ExecRETVClearsCaller(m) ==
    IF Len(m.CallStack) = 0 THEN Fatal(m, "CANNOT RETV: callstack empty")
    ELSE [m EXCEPT !.CallStack =
                       [i \in 1..(Len(@) - 1) |-> [@[i] EXCEPT !.LocalStack = <<>>]],
                   !.Ip = m.CallStack[Len(m.CallStack)].ReturnAddress]

\* case RETV, lines 572-578.
ExecRETV(m) ==
    IF Len(m.CallStack) = 0 THEN Fatal(m, "CANNOT RETV: callstack empty")
    ELSE [m EXCEPT !.CallStack = SubSeq(@, 1, Len(@) - 1),
                   !.Ip = m.CallStack[Len(m.CallStack)].ReturnAddress]

\* case ALLOC, lines 627-637, when mmap returns address a.
ExecALLOC(m, a) ==
    LET r == pop(m) IN
    IF Failed(r.m) THEN r.m
    ELSE IF r.v.Kind # ValueInt32 THEN Fatal(r.m, "size should be an integer")
    ELSE LET al == Allocate(r.m.Memory, ToInt32(r.v.Raw), a) IN
         IF al.err # "" THEN Fatal(r.m, al.err)
         ELSE push([r.m EXCEPT !.Memory = al.mem], PtrValue(al.ptr))

\* case FREE, lines 638-643.
ExecFREE(m) ==
    LET r == pop(m) IN
    IF Failed(r.m) THEN r.m
    ELSE IF r.v.Kind # ValuePtr THEN Fatal(r.m, "Value is not ptr")
    ELSE LET f == Free(r.m.Memory, r.v.Ptr) IN
         IF f.err # "" THEN Fatal([r.m EXCEPT !.Memory = f.mem], f.err)
         ELSE [r.m EXCEPT !.Memory = f.mem]

\* case LOADH, lines 644-650.
ExecLOADH(m) ==
    LET r == pop(m) IN
    IF Failed(r.m) THEN r.m
    ELSE IF r.v.Kind # ValuePtr THEN Fatal(r.m, "Value is not ptr")
    ELSE LET l == LoadValue(r.m.Memory, r.v.Ptr) IN
         IF l.err # "" THEN Fatal(r.m, l.err)
         ELSE push(r.m, l.value)

\* case STOREH, lines 651-657.  StoreValue writes the tag byte before it
\* can fail, so its memory is kept in either case.
ExecSTOREH(m) ==
    LET p == pop2(m) IN
    IF Failed(p.m) THEN p.m
    ELSE IF p.v2.Kind # ValuePtr THEN Fatal(p.m, "Value is not ptr")
    ELSE LET st == StoreValue(p.m.Memory, p.v2.Ptr, p.v1)
             m2 == [p.m EXCEPT !.Memory = st.mem]
         IN  IF st.err # "" THEN Fatal(m2, st.err) ELSE m2

\* case NEWSTRUCT, lines 698-708, when mmap returns address a.
ExecNEWSTRUCT(m, a) ==
    LET x == extractString(m) IN
    IF Failed(x.m) THEN x.m
    ELSE IF x.str \notin DOMAIN Structs THEN Fatal(x.m, "Unkown struct type")
    ELSE LET al == AllocateStruct(x.m.Memory, Structs[x.str], a) IN
         IF al.err # "" THEN Fatal(x.m, al.err)
         ELSE push([x.m EXCEPT !.Memory = al.mem], PtrValue(al.ptr))

\* case STRALLOC, lines 662-670, when mmap returns address a.  The slice
\* Bytecode[Ip : Ip+length] is taken with the capacity equal to the length.
ExecSTRALLOC(m, a) ==
    LET x == extractUInt16(m) IN
    IF Failed(x.m) THEN x.m
    ELSE IF x.m.Ip + x.n > Len(Bytecode) THEN Fatal(x.m, "panic: slice bounds out of range")
    ELSE LET data == Slice(Bytecode, x.m.Ip, x.m.Ip + x.n)
             m2 == [x.m EXCEPT !.Ip = @ + x.n]
             al == AllocateString(m2.Memory, data, a)
         IN  IF al.err # "" THEN Fatal(m2, al.err)
             ELSE push([m2 EXCEPT !.Memory = al.mem], PtrValue(al.ptr))

\* case NEWARR, lines 671-678, when mmap returns address a.
ExecNEWARR(m, a) ==
    LET k == getByte(m) IN
    IF Failed(k.m) THEN k.m
    ELSE LET r == pop(k.m) IN
    IF Failed(r.m) THEN r.m
    ELSE IF r.v.Kind # ValueInt32 THEN Fatal(r.m, "Value is not int32")
    ELSE LET al == AllocateArray(r.m.Memory, k.b, ToInt32(r.v.Raw), a) IN
         IF al.err # "" THEN Fatal(r.m, al.err)
         ELSE push([r.m EXCEPT !.Memory = al.mem], PtrValue(al.ptr))

\* case LDELEM, lines 679-686.
ExecLDELEM(m) ==
    LET i == pop(m) IN
    IF Failed(i.m) THEN i.m
    ELSE IF i.v.Kind # ValueInt32 THEN Fatal(i.m, "Value is not int32")
    ELSE LET p == pop(i.m) IN
    IF Failed(p.m) THEN p.m
    ELSE IF p.v.Kind # ValuePtr THEN Fatal(p.m, "Value is not ptr")
    ELSE LET g == GetArrayElement(p.m.Memory, p.v.Ptr, ToInt32(i.v.Raw)) IN
         IF g.err # "" THEN Fatal(p.m, g.err)
         ELSE push(p.m, g.value)

\* case STELEM, lines 687-694.
ExecSTELEM(m) ==
    LET v == pop(m) IN
    IF Failed(v.m) THEN v.m
    ELSE LET i == pop(v.m) IN
    IF Failed(i.m) THEN i.m
    ELSE IF i.v.Kind # ValueInt32 THEN Fatal(i.m, "Value is not int32")
    ELSE LET p == pop(i.m) IN
    IF Failed(p.m) THEN p.m
    ELSE IF p.v.Kind # ValuePtr THEN Fatal(p.m, "Value is not ptr")
    ELSE LET s == SetArrayElement(p.m.Memory, p.v.Ptr, ToInt32(i.v.Raw), v.v) IN
         IF s.err # "" THEN Fatal([p.m EXCEPT !.Memory = s.mem], s.err)
         ELSE [p.m EXCEPT !.Memory = s.mem]

\* str1Ptr := v.pop().AsPtr(); str2Ptr := v.pop().AsPtr() and the two
\* LoadString calls of STR_CAT and STR_EQUALS, part_001 lines 133-142.
popStrings(m) ==
    LET p1 == pop(m)
    IN  IF Failed(p1.m) THEN [m |-> p1.m, str1 |-> <<>>, str2 |-> <<>>]
        ELSE IF p1.v.Kind # ValuePtr
            THEN [m |-> Fatal(p1.m, "Value is not ptr"), str1 |-> <<>>, str2 |-> <<>>]
        ELSE
        LET p2 == pop(p1.m) IN
        IF Failed(p2.m) THEN [m |-> p2.m, str1 |-> <<>>, str2 |-> <<>>]
        ELSE IF p2.v.Kind # ValuePtr
            THEN [m |-> Fatal(p2.m, "Value is not ptr"), str1 |-> <<>>, str2 |-> <<>>]
        ELSE
        LET l1 == LoadString(p2.m.Memory, p1.v.Ptr)
            l2 == LoadString(p2.m.Memory, p2.v.Ptr)
        IN  IF l1.err # "" THEN [m |-> Fatal(p2.m, l1.err), str1 |-> <<>>, str2 |-> <<>>]
            ELSE IF l2.err # "" THEN [m |-> Fatal(p2.m, l2.err), str1 |-> <<>>, str2 |-> <<>>]
            ELSE [m |-> p2.m, str1 |-> l1.str, str2 |-> l2.str]

\* The Systemcall constants, part_001 lines 115-121.
STR_LEN == 0
STR_CAT == 1
STR_EQUALS == 2
WRITE_BYTE == 3
READ_BYTE == 4

\* VM.executeSystemCall, part_001 lines 123-186, when mmap returns address
\* a and standard input delivers the byte in (-1: the read fails).  A call
\* that is none of the five constants matches no case.
executeSystemCall(m, call, a, in) ==
    IF call = STR_LEN THEN
        LET p == pop(m) IN
        IF Failed(p.m) THEN p.m
        ELSE IF p.v.Kind # ValuePtr THEN Fatal(p.m, "Value is not ptr")
        ELSE LET l == LoadString(p.m.Memory, p.v.Ptr) IN
             IF l.err # "" THEN Fatal(p.m, l.err)
             ELSE push(p.m, Int32Value(Len(l.str)))
    ELSE IF call = STR_CAT THEN
        LET s == popStrings(m) IN
        IF Failed(s.m) THEN s.m
        ELSE LET al == AllocateString(s.m.Memory, s.str1 \o s.str2, a) IN
             IF al.err # "" THEN Fatal(s.m, al.err)
             ELSE push([s.m EXCEPT !.Memory = al.mem], PtrValue(al.ptr))
    ELSE IF call = STR_EQUALS THEN
        LET s == popStrings(m) IN
        IF Failed(s.m) THEN s.m
        ELSE push(s.m, Int32Value(IF s.str1 = s.str2 THEN 1 ELSE 0))
    ELSE IF call = WRITE_BYTE THEN
        LET p == pop(m) IN
        IF Failed(p.m) THEN p.m
        ELSE IF p.v.Kind \notin {ValueByte, ValueInt32}
            THEN Fatal(p.m, "WRITE_BYTE expects a byte or int32 value")
        ELSE p.m
    ELSE IF call = READ_BYTE THEN
        IF in < 0 THEN Fatal(m, "EOF") ELSE push(m, ByteValue(in))
    ELSE m

\* case SYSCALL, lines 695-697: the 16-bit operand converted to the byte
\* type Systemcall.
ExecSYSCALL(m, a, in) ==
    LET x == extractUInt16(m) IN
    IF Failed(x.m) THEN x.m
    ELSE executeSystemCall(x.m, x.n % 256, a, in)

\* case FLDGET, lines 709-716.
ExecFLDGET(m) ==
    LET x == extractString(m) IN
    IF Failed(x.m) THEN x.m
    ELSE LET p == pop(x.m) IN
    IF Failed(p.m) THEN p.m
    ELSE IF p.v.Kind # ValuePtr THEN Fatal(p.m, "Value is not ptr")
    ELSE LET g == GetStructField(p.m.Memory, p.v.Ptr, x.str) IN
         IF g.err # "" THEN Fatal(p.m, g.err)
         ELSE push(p.m, g.value)

\* case STFIELD, lines 717-724.
ExecSTFIELD(m) ==
    LET v == pop(m) IN
    IF Failed(v.m) THEN v.m
    ELSE LET p == pop(v.m) IN
    IF Failed(p.m) THEN p.m
    ELSE IF p.v.Kind # ValuePtr THEN Fatal(p.m, "Value is not ptr")
    ELSE LET x == extractString(p.m) IN
    IF Failed(x.m) THEN x.m
    ELSE LET s == SetStructureField(x.m.Memory, p.v.Ptr, x.str, v.v) IN
         IF s.err # "" THEN Fatal([x.m EXCEPT !.Memory = s.mem], s.err)
         ELSE [x.m EXCEPT !.Memory = s.mem]

\* case JMP, lines 419-421: the address is not checked.
ExecJMP(m) ==
    LET x == extractUInt16(m) IN
    IF Failed(x.m) THEN x.m ELSE [x.m EXCEPT !.Ip = x.n]

\* The conditional jumps, lines 423-474: the address, checked against the
\* bytecode's length, the immediate, the popped value and its kind; taken
\* tells from the immediate's word and the value's whether to jump.
CondJump(m, kind, msg, taken(_, _)) ==
    LET x == extractUInt16(m) IN
    IF Failed(x.m) THEN x.m
    ELSE IF x.n >= Len(Bytecode) THEN Fatal(x.m, "Invalid address")
    ELSE LET i == extractUInt32(x.m) IN
    IF Failed(i.m) THEN i.m
    ELSE LET p == pop(i.m) IN
    IF Failed(p.m) THEN p.m
    ELSE IF p.v.Kind # kind THEN Fatal(p.m, msg)
    ELSE IF taken(i.w, p.v.Raw) THEN [p.m EXCEPT !.Ip = x.n]
    ELSE p.m

IntDiffers(a, b) == ToInt32(a) # ToInt32(b)
IntSame(a, b) == ToInt32(a) = ToInt32(b)
FloatDiffers(a, b) == ~F32Eq(a, b)
FloatSame(a, b) == F32Eq(a, b)

\* case IJNE, lines 423-435.
ExecIJNE(m) == CondJump(m, ValueInt32, "should be an int32", IntDiffers)

\* case IJE, lines 436-448.
ExecIJE(m) == CondJump(m, ValueInt32, "Should be an int32", IntSame)

\* case FJNE, lines 449-461.
ExecFJNE(m) == CondJump(m, ValueFloat32, "Should be a float32", FloatDiffers)

\* case FJE, lines 462-474.
ExecFJE(m) == CondJump(m, ValueFloat32, "Should be a float32", FloatSame)

\* FUNC that steps back onto the marker it was fetched from.
ExecFUNCStays(m) == [m EXCEPT !.Ip = @ - 1]

\* case FUNC, lines 725-726.
ExecFUNC(m) == [m EXCEPT !.Ip = @ + 5]

(***************************************************************************)
(* VM.Run, src/vm/vm.go lines 214-221: while Running, fetch the opcode     *)
(* byte and execute its case.  One action per case of the switch.          *)
(***************************************************************************)
Live == Running /\ fatal = ""

Machine ==
    [Ip |-> Ip, CallStack |-> CallStack, Memory |-> Memory, Running |-> Running,
     fatal |-> fatal]

\* The machine after opcode := v.getByte() has read a byte.
Fetched == getByte(Machine).m

\* The opcode byte under Ip is o.
Fetch(o) == Live /\ InRange(Bytecode, Ip) /\ At(Bytecode, Ip) = o

\* The frame on top of a call stack.
Top(stack) == stack[Len(stack)]

\* The record kept of a CALL that created a frame: where the CALL stood,
\* its target, and the caller's operand stack and locals before it.
CallRecord ==
    [at |-> Ip, target |-> Uint16At(Bytecode, Ip + 1),
     before |-> Top(CallStack).LocalStack, locals |-> Top(CallStack).Locals]

\* The opcode o, about to be executed at Ip, is one that allocates: ALLOC,
\* STRALLOC, NEWARR, NEWSTRUCT, or SYSCALL with the id of STR_CAT.
Allocating(o) ==
    \/ o \in {ALLOC, STRALLOC, NEWARR, NEWSTRUCT}
    \/ /\ o = SYSCALL
       /\ Ip + 2 < Len(Bytecode)
       /\ Uint16At(Bytecode, Ip + 1) % 256 = STR_CAT

\* An entry of the output: a byte written, or a line printed.
Written(b) == [line |-> "", byte |-> b]
Printed(line) == [line |-> line, byte |-> 0]

\* The opcode o, about to be executed at Ip and leaving machine m2, is a
\* SYSCALL of WRITE_BYTE that reached os.Stdout.Write (part_001 lines
\* 164-177), and the byte it writes: the Byte's payload or the low byte of
\* the Int32 on top of the operand stack.
WritesByte(o, m2) ==
    /\ o = SYSCALL
    /\ Ip + 2 < Len(Bytecode)
    /\ Uint16At(Bytecode, Ip + 1) % 256 = WRITE_BYTE
    /\ m2.fatal = ""

WrittenByte == Top(Top(CallStack).LocalStack).Raw[4]

\* What opcode o, other than RET, writes to os.Stdout when it leaves m2: the
\* line of case POP (vm.go line 339), the byte of WRITE_BYTE.
Stdout(o, m2) ==
    IF o = POP THEN <<Printed("aparent apelam pop din switch DE CE")>>
    ELSE IF WritesByte(o, m2) THEN <<Written(WrittenByte)>>
    ELSE <<>>

\* What case RET prints (vm.go lines 522, 556, 559) on machine m when the
\* loop over Functions stops at c.
RetOutput(m, c) ==
    IF Len(m.CallStack) = 0 THEN <<>>
    ELSE LET calleeFrame == m.CallStack[Len(m.CallStack)] IN
    IF Len(calleeFrame.LocalStack) = 0 THEN <<>>
    ELSE IF calleeFrame.ReturnAddress = Sentinel
        THEN <<Printed("Program execution complete - returning from main")>>
    ELSE IF c = -1
        THEN <<Printed("Warning: Could not determine current function for return type checking")>>
    ELSE IF Functions[c].ReturnType = calleeFrame.LocalStack[Len(calleeFrame.LocalStack)].Kind
        THEN <<Printed("Return value type check passed")>>
    ELSE <<>>

\* The step from the current state to machine m2 by opcode o, which writes
\* out to os.Stdout.
CommitOut(o, m2, out) ==
    /\ Ip' = m2.Ip
    /\ CallStack' = m2.CallStack
    /\ Memory' = m2.Memory
    /\ Running' = m2.Running
    /\ fatal' = m2.fatal
    /\ op' = o
    /\ pre' = [Ip |-> Ip, CallStack |-> CallStack, Memory |-> Memory,
               live |-> live, freed |-> freed, op |-> op, from |-> pre.Ip,
               init |-> FALSE, output |-> output]
    /\ output' = output \o out
    /\ written' =
          IF o = STORE /\ m2.fatal = ""
              THEN [written EXCEPT ![Len(CallStack)] =
                       LET k == Uint16At(Bytecode, Ip + 1) IN
                       [s \in DOMAIN @ \cup {k} |->
                           IF s = k THEN Top(Top(CallStack).LocalStack) ELSE @[s]]]
          ELSE [i \in DOMAIN m2.CallStack |->
                   IF i \in DOMAIN written THEN written[i] ELSE NoLocals]
    /\ calls' = IF o = CALL /\ m2.fatal = "" /\ Len(CallStack) > 0
                THEN Append(SubSeq(calls, 1, Len(CallStack) - 1), CallRecord)
                ELSE calls
    /\ stored' =
          IF o = STOREH /\ m2.fatal = ""
              THEN LET st == Top(CallStack).LocalStack
                       ptr == st[Len(st) - 1].Ptr
                   IN  [a \in DOMAIN stored \cup {ptr} |->
                           IF a = ptr THEN st[Len(st)] ELSE stored[a]]
          ELSE IF o = FREE /\ m2.fatal = ""
              THEN [a \in DOMAIN stored \ {Top(Top(CallStack).LocalStack).Ptr} |-> stored[a]]
          ELSE stored
    /\ live' =
          IF m2.fatal = "" /\ Allocating(o)
              THEN live \cup {Top(Top(m2.CallStack).LocalStack).Ptr}
          ELSE IF m2.fatal = "" /\ o = FREE
              THEN live \ {Top(Top(CallStack).LocalStack).Ptr}
          ELSE live
    /\ freed' =
          IF m2.fatal = "" /\ o = FREE
              THEN freed \cup {Top(Top(CallStack).LocalStack).Ptr}
          ELSE freed
    /\ UNCHANGED <<Bytecode, Functions, Structs, program, asm>>

\* The addresses mmap hands out.
Addrs == {PageSize * i : i \in 1..NumAddrs}

\* Where mmap may place size bytes: any address with room, 0 when there is
\* none.
MmapChoices(mem, size) ==
    LET fit == {a \in Addrs :
                   FreeRange(mem, a, PageSize * ((size + PageSize - 1) \div PageSize))}
    IN  IF fit = {} THEN {0} ELSE fit

\* The opcodes the switch of VM.execute has a case for.
Cases == (HALT..STELEM) \cup {FUNC, NEWSTRUCT, FLDGET, STFIELD}

Commit(o, m2) == CommitOut(o, m2, Stdout(o, m2))

StepHALT == Fetch(HALT) /\ Commit(HALT, ExecHALT(Fetched))
StepPUSH == Fetch(PUSH) /\ Commit(PUSH, ExecPUSH(Fetched))
StepPOP == Fetch(POP) /\ Commit(POP, ExecPOP(Fetched))
StepDUP == Fetch(DUP) /\ Commit(DUP, ExecDUP(Fetched))
StepIADD == Fetch(IADD) /\ Commit(IADD, ExecIADD(Fetched))
StepISUB == Fetch(ISUB) /\ Commit(ISUB, ExecISUB(Fetched))
StepIMUL == Fetch(IMUL) /\ Commit(IMUL, ExecIMUL(Fetched))
StepIDIV == Fetch(IDIV) /\ Commit(IDIV, ExecIDIV(Fetched))
StepFADD == Fetch(FADD) /\ Commit(FADD, ExecFADD(Fetched))
StepFSUB == Fetch(FSUB) /\ Commit(FSUB, ExecFSUB(Fetched))
StepFMUL == Fetch(FMUL) /\ Commit(FMUL, ExecFMUL(Fetched))
StepFDIV == Fetch(FDIV) /\ Commit(FDIV, ExecFDIV(Fetched))
StepEQ == Fetch(EQ) /\ Commit(EQ, ExecEQ(Fetched))
StepNE == Fetch(NE) /\ Commit(NE, ExecNE(Fetched))
StepLT == Fetch(LT) /\ Commit(LT, ExecLT(Fetched))
StepLE == Fetch(LE) /\ Commit(LE, ExecLE(Fetched))
StepGT == Fetch(GT) /\ Commit(GT, ExecGT(Fetched))
StepGE == Fetch(GE) /\ Commit(GE, ExecGE(Fetched))
StepSTORE == Fetch(STORE) /\ Commit(STORE, ExecSTORE(Fetched))
StepLOAD == Fetch(LOAD) /\ Commit(LOAD, ExecLOAD(Fetched))
StepCALL == Fetch(CALL) /\ Commit(CALL, ExecCALL(Fetched))
StepRET ==
    /\ Fetch(RET)
    /\ \E c \in RetCandidates(Fetched) :
          CommitOut(RET, ExecRET(Fetched, c), RetOutput(Fetched, c))
StepRETV == Fetch(RETV) /\ Commit(RETV, ExecRETV(Fetched))
StepALLOC ==
    /\ Fetch(ALLOC)
    /\ LET st == IF Len(CallStack) = 0 THEN <<>> ELSE Top(CallStack).LocalStack
           size == IF Len(st) > 0 /\ Top(st).Kind = ValueInt32 THEN ToInt32(Top(st).Raw) ELSE 0
       IN  \E a \in MmapChoices(Memory, size) : Commit(ALLOC, ExecALLOC(Fetched, a))
StepFREE == Fetch(FREE) /\ Commit(FREE, ExecFREE(Fetched))
StepLOADH == Fetch(LOADH) /\ Commit(LOADH, ExecLOADH(Fetched))
StepSTOREH == Fetch(STOREH) /\ Commit(STOREH, ExecSTOREH(Fetched))
StepNEWSTRUCT ==
    /\ Fetch(NEWSTRUCT)
    /\ LET name == extractString(Fetched).str
           size == IF name \in DOMAIN Structs THEN 1 + Structs[name].Size ELSE 0
       IN  \E a \in MmapChoices(Memory, size) : Commit(NEWSTRUCT, ExecNEWSTRUCT(Fetched, a))
StepSTRALLOC ==
    /\ Fetch(STRALLOC)
    /\ LET x == extractUInt16(Fetched)
       IN  \E a \in MmapChoices(Memory, 5 + x.n) : Commit(STRALLOC, ExecSTRALLOC(Fetched, a))
StepNEWARR ==
    /\ Fetch(NEWARR)
    /\ LET k == getByte(Fetched)
           st == IF Len(CallStack) = 0 THEN <<>> ELSE Top(CallStack).LocalStack
           length == IF Len(st) > 0 /\ Top(st).Kind = ValueInt32 THEN ToInt32(Top(st).Raw) ELSE 0
       IN  \E a \in MmapChoices(Memory, 6 + GetElementSize(k.b) * length) :
               Commit(NEWARR, ExecNEWARR(Fetched, a))
StepLDELEM == Fetch(LDELEM) /\ Commit(LDELEM, ExecLDELEM(Fetched))
StepSTELEM == Fetch(STELEM) /\ Commit(STELEM, ExecSTELEM(Fetched))

\* What standard input may deliver to READ_BYTE: a byte, or -1 for a read
\* that fails (end of input).
StdinChoices == {-1, 65}

StepSYSCALL ==
    /\ Fetch(SYSCALL)
    /\ LET x == extractUInt16(Fetched)
           call == x.n % 256
           s == popStrings(x.m)
           size == IF ~Failed(x.m) /\ call = STR_CAT /\ ~Failed(s.m)
                   THEN 5 + Len(s.str1) + Len(s.str2) ELSE 0
       IN  \E a \in (IF size = 0 THEN {0} ELSE MmapChoices(Memory, size)) :
           \E in \in (IF call = READ_BYTE THEN StdinChoices ELSE {-1}) :
               Commit(SYSCALL, ExecSYSCALL(Fetched, a, in))
StepFLDGET == Fetch(FLDGET) /\ Commit(FLDGET, ExecFLDGET(Fetched))
StepSTFIELD == Fetch(STFIELD) /\ Commit(STFIELD, ExecSTFIELD(Fetched))
StepFUNC == Fetch(FUNC) /\ Commit(FUNC, ExecFUNC(Fetched))
StepJMP == Fetch(JMP) /\ Commit(JMP, ExecJMP(Fetched))
StepIJNE == Fetch(IJNE) /\ Commit(IJNE, ExecIJNE(Fetched))
StepIJE == Fetch(IJE) /\ Commit(IJE, ExecIJE(Fetched))
StepFJNE == Fetch(FJNE) /\ Commit(FJNE, ExecFJNE(Fetched))
StepFJE == Fetch(FJE) /\ Commit(FJE, ExecFJE(Fetched))

\* An opcode byte the switch has no case for: execute returns at once.
StepNoCase ==
    /\ Live /\ InRange(Bytecode, Ip) /\ At(Bytecode, Ip) \notin Cases
    /\ Commit(At(Bytecode, Ip), Fetched)

\* v.Bytecode[v.Ip] in getByte with Ip outside the bytecode: a runtime panic.
StepPanic == Live /\ ~InRange(Bytecode, Ip) /\ Commit(-1, Fetched)

(***************************************************************************)
(* The programs the VM is constructed on.  Each is the bytecode the        *)
(* assembler's emitters lay out (src/assembler/codeGenerator.go): a FUNC   *)
(* header per function, big-endian operands, NUL-terminated names.         *)
(***************************************************************************)
\* emitUint16, codeGenerator.go lines 314-318.
U16(n) == <<n \div 256, n % 256>>

\* FUNC header, codeGenerator.go lines 34-49: FUNC, the main marker, the
\* parameter count, the return kind and, for a struct, its name.
Hdr(marker, n, ret) ==
    <<FUNC, marker>> \o U16(n) \o <<ret>> \o (IF ret = ValueStruct THEN <<80, 0>> ELSE <<>>)

\* PUSH of an immediate, codeGenerator.go lines 134-170.
PushV(v) ==
    IF v.Kind = ValueByte THEN <<PUSH, ValueByte, v.Raw[4]>> ELSE <<PUSH, v.Kind>> \o v.Raw

PushI(i) == PushV(Int32Value(i))

\* A program of one function, main, with the given body.
Main(body) == Hdr(FUNC_MAIN, 0, ValueVoid) \o body

(***************************************************************************)
(* The assembler's code generator, src/assembler/codeGenerator.go.  A      *)
(* Program (parser.go lines 20-31) is [Structs, Functions]; a function is  *)
(* [Name, Params, ReturnType, ReturnStructName, Body, Labels]; an          *)
(* instruction is [Opcode, Operands]; an operand is a token [Type,         *)
(* Literal].  Names and string literals are byte sequences.  A literal is  *)
(* its text as the generator reads it: [kind |-> "int", n] for decimal     *)
(* text that strconv parses to n, [kind |-> "float", w] for text that      *)
(* parses to the float32 with bits w, [kind |-> "text", s] for any other   *)
(* text s.  A generator g is [status, bytecode, functionTable,             *)
(* structTable, err], err standing for the error Generate returns.         *)
(***************************************************************************)
Token(type, literal) == [Type |-> type, Literal |-> literal]
IntLit(n) == [kind |-> "int", n |-> n]
FloatLit(w) == [kind |-> "float", w |-> w]
TextLit(s) == [kind |-> "text", s |-> s]

Instr(opcode, operands) == [Opcode |-> opcode, Operands |-> operands]

\* "main" in bytes.
MainName == <<109, 97, 105, 110>>

\* emitByte, emitBytes, emitString, emitUint16, emitInt32: lines 285-318.
emitBytes(g, bs) == [g EXCEPT !.bytecode = @ \o bs]

emitString(g, s) == emitBytes(g, s \o <<0>>)

\* emitUint16 with the low byte first.
emitUint16Swapped(g, n) == emitBytes(g, <<n % 256, n \div 256>>)

emitUint16(g, n) == emitBytes(g, U16(n))

emitInt32(g, n) == emitBytes(g, FromInt32(n))

\* An error that is dropped.
GenErrorIgnored(g, msg) == g

\* return fmt.Errorf(...) in generateInstruction and Generate: the generator
\* with the error it stops on (the message without its arguments).
GenError(g, msg) == [g EXCEPT !.err = msg]

\* CodeGenerator.generateInstruction, lines 133-283, in function fn.
generateInstruction(g0, inst, fn) ==
    LET g == emitBytes(g0, <<inst.Opcode>>)
        ops == inst.Operands
        o == inst.Opcode
    IN
    IF o = PUSH THEN
        IF Len(ops) # 2 THEN GenError(g, "push requires two operands")
        ELSE IF ops[1].Type = "INT32" THEN
            IF ops[2].Literal.kind # "int" THEN GenError(g, "invalid integer")
            ELSE emitInt32(emitBytes(g, <<ValueInt32>>), ops[2].Literal.n)
        ELSE IF ops[1].Type = "FLOAT32" THEN
            IF ops[2].Literal.kind = "text" THEN GenError(g, "invalid float")
            ELSE emitBytes(emitBytes(g, <<ValueFloat32>>),
                           IF ops[2].Literal.kind = "float" THEN ops[2].Literal.w
                           ELSE Unsupported)
        ELSE IF ops[1].Type = "BYTE_TYPE" THEN
            IF ops[2].Literal.kind # "int" THEN GenError(g, "invalid integer")
            ELSE IF ops[2].Literal.n < 0 \/ ops[2].Literal.n > 255
                THEN GenError(g, "byte value out of range")
            ELSE emitBytes(g, <<ValueByte, ops[2].Literal.n>>)
        ELSE GenError(g, "unsupported type in push")
    ELSE IF o \in {STORE, LOAD} THEN
        IF Len(ops) # 1 THEN GenError(g, "requires one operand")
        ELSE IF ops[1].Literal.kind # "int" THEN GenError(g, "invalid integer")
        ELSE emitUint16(g, ops[1].Literal.n % 65536)
    ELSE IF o = CALL THEN
        IF Len(ops) # 1 THEN GenError(g, "call requires one operand")
        ELSE IF ops[1].Literal.s \notin DOMAIN g.functionTable
            THEN GenError(g, "undefined functionn")
        ELSE emitUint16(g, g.functionTable[ops[1].Literal.s] % 65536)
    ELSE IF o \in {JMP, IJE, IJNE, FJE, FJNE} THEN
        IF Len(ops) < 1 THEN GenError(g, "jump requires at least one operand")
        ELSE IF ops[1].Literal.s \notin DOMAIN fn.Labels THEN GenError(g, "undefined label")
        ELSE LET g2 == emitUint16(g, fn.Labels[ops[1].Literal.s] % 65536) IN
             IF o = JMP THEN g2
             ELSE IF Len(ops) # 2 THEN GenError(g2, "conditional jump requires two operands")
             ELSE IF ops[2].Type = "INT" THEN
                 IF ops[2].Literal.kind # "int" THEN GenError(g2, "invalid integer")
                 ELSE emitInt32(g2, ops[2].Literal.n)
             ELSE IF ops[2].Type = "FLOAT" THEN
                 IF ops[2].Literal.kind # "float" THEN GenError(g2, "invalid float")
                 ELSE emitBytes(g2, ops[2].Literal.w)
             ELSE GenError(g2, "unsupported type in conditional jump")
    ELSE IF o = STRALLOC THEN
        IF Len(ops) # 1 THEN GenError(g, "stralloc requires one operand")
        ELSE emitBytes(emitUint16(g, Len(ops[1].Literal.s) % 65536), ops[1].Literal.s)
    ELSE IF o = SYSCALL THEN
        IF Len(ops) # 1 THEN GenError(g, "syscall requires one operand")
        ELSE IF ops[1].Literal.kind # "int" \/ ops[1].Literal.n < 0 \/ ops[1].Literal.n > 65535
            THEN GenError(g, "invalid syscall number")
        ELSE emitUint16(g, ops[1].Literal.n)
    ELSE IF o = NEWARR THEN
        IF Len(ops) # 1 THEN GenError(g, "newarr requires one operand")
        ELSE IF ops[1].Type = "INT32" THEN emitBytes(g, <<ValueInt32>>)
        ELSE IF ops[1].Type = "FLOAT32" THEN emitBytes(g, <<ValueFloat32>>)
        ELSE GenError(g, "unsupported type in newarr")
    ELSE IF o = NEWSTRUCT THEN
        IF Len(ops) # 1 THEN GenError(g, "newstruct requires one operand")
        ELSE IF ops[1].Literal.s \notin g.structTable THEN GenError(g, "undefined struct")
        ELSE emitString(g, ops[1].Literal.s)
    ELSE IF o \in {STFIELD, FLDGET} THEN
        IF Len(ops) # 1 THEN GenError(g, "field access requires one operand")
        ELSE emitString(g, ops[1].Literal.s)
    ELSE g

\* The loop over function.Body, lines 53-57, from instruction i on.
RECURSIVE generateBody(_, _, _)
generateBody(g, fn, i) ==
    IF g.err # "" \/ i > Len(fn.Body) THEN g
    ELSE generateBody(generateInstruction(g, fn.Body[i], fn), fn, i + 1)

\* The header of one function and the entry of the function table, lines
\* 34-51.
generateHeader(g, fn) ==
    LET h == emitBytes(g, <<FUNC, IF fn.Name = MainName THEN FUNC_MAIN ELSE FUNC_NORMAL>>
                          \o U16(Len(fn.Params) % 65536) \o <<fn.ReturnType>>)
        named == IF fn.ReturnType = ValueStruct THEN emitString(h, fn.ReturnStructName) ELSE h
        bodyStart == Len(named.bytecode)
    IN  IF fn.ReturnType = ValueStruct /\ fn.ReturnStructName \notin g.structTable
        THEN GenError(h, "undefined struct return type")
        ELSE [named EXCEPT !.functionTable =
                 [n \in DOMAIN @ \cup {fn.Name} |-> IF n = fn.Name THEN bodyStart ELSE @[n]]]

\* The loop over program.Functions, lines 33-58, from function i on.
RECURSIVE generateFunctions(_, _, _)
generateFunctions(g, fns, i) ==
    IF g.err # "" \/ i > Len(fns) THEN g
    ELSE generateFunctions(generateBody(generateHeader(g, fns[i]), fns[i], 1), fns, i + 1)

\* The record of one field, lines 70-75: name, kind and, for a field with
\* an ArrayType, the Array kind and the element kind.
emitField(g, field) ==
    emitBytes(emitString(g, field.Name),
              <<field.Type>> \o (IF field.ArrayType # <<>>
                                 THEN <<ValueArray, field.ArrayType[1]>> ELSE <<>>))

RECURSIVE emitFields(_, _, _)
emitFields(g, fields, i) ==
    IF i > Len(fields) THEN g ELSE emitFields(emitField(g, fields[i]), fields, i + 1)

\* CodeGenerator.defineStructs, lines 63-79, from struct i on.
RECURSIVE defineStructs(_, _, _)
defineStructs(g, structs, i) ==
    IF i > Len(structs) THEN g
    ELSE LET s == structs[i]
             g1 == [g EXCEPT !.structTable = @ \cup {s.Name}]
             g2 == emitBytes(emitString(emitBytes(g1, <<DEFSTRUCT>>), s.Name),
                             <<Len(s.Fields) % 256>>)
         IN  defineStructs(emitFields(g2, s.Fields, 1), structs, i + 1)

\* Generate without the final HALT.
GenerateNoHalt(prog) ==
    LET g0 == [status |-> "pending", bytecode |-> <<>>,
               functionTable |-> [n \in {} |-> 0], structTable |-> {}, err |-> ""]
        g1 == generateFunctions(defineStructs(g0, prog.Structs, 1), prog.Functions, 1)
    IN  IF g1.err # "" THEN [g1 EXCEPT !.bytecode = <<>>] ELSE g1

\* NewCodeGenerator and CodeGenerator.Generate, lines 20-61: the generator
\* it leaves; on an error the bytecode is not returned.
Generate(prog) ==
    LET g0 == [status |-> "pending", bytecode |-> <<>>,
               functionTable |-> [n \in {} |-> 0], structTable |-> {}, err |-> ""]
        g1 == generateFunctions(defineStructs(g0, prog.Structs, 1), prog.Functions, 1)
    IN  IF g1.err # "" THEN [g1 EXCEPT !.bytecode = <<>>]
        ELSE emitBytes(g1, <<HALT>>)

\* Float32 bit patterns: 0, -0, 1, -1.5, 2, 3, +Inf and a NaN.
F32Zero == <<0, 0, 0, 0>>
F32NegZero == <<128, 0, 0, 0>>
F32One == <<63, 128, 0, 0>>
F32Inf == <<127, 128, 0, 0>>
F32NaN == <<127, 192, 0, 0>>

IntVals ==
    {Int32Value(i) : i \in {MinInt32, -7, -1, 0, 2, 7, 2147483647}}

ArithFloats ==
    {Float32Value(w) : w \in {F32Zero, F32NegZero, F32One, <<191, 192, 0, 0>>,
                              <<64, 0, 0, 0>>, <<64, 64, 0, 0>>}}

CmpFloats == ArithFloats \cup {Float32Value(F32Inf), Float32Value(F32NaN)}

\* Operand pairs no binary case accepts, or only the comparisons of bytes.
MixedPairs ==
    {<<Int32Value(2), Float32Value(F32One)>>,
     <<Float32Value(F32One), Int32Value(2)>>,
     <<ByteValue(65), ByteValue(65)>>,
     <<Int32Value(2), ByteValue(65)>>}

IntOps == {IADD, ISUB, IMUL, IDIV}
FloatOps == {FADD, FSUB, FMUL, FDIV}
CmpOps == {EQ, NE, LT, LE, GT, GE}

OperandPairs(o) ==
    MixedPairs \cup
    (IF o \in IntOps THEN IntVals \X IntVals
     ELSE IF o \in FloatOps THEN ArithFloats \X ArithFloats
     ELSE (IntVals \X IntVals) \cup (CmpFloats \X CmpFloats))

\* push v1; push v2; o; halt
ArithPrograms ==
    UNION {{Main(PushV(pr[1]) \o PushV(pr[2]) \o <<o, HALT>>) : pr \in OperandPairs(o)} :
              o \in IntOps \cup FloatOps \cup CmpOps}

\* Programs on the operand stack alone: too few operands, pop and dup, a
\* byte with no case in the switch, and running off the end of the bytecode.
StackPrograms ==
    {Main(<<o, HALT>>) : o \in {IADD, FDIV, LT, POP, DUP, STOREH, LOADH, FREE, ALLOC}}
    \cup {Main(PushI(7) \o <<o, HALT>>) : o \in {ISUB, GE, STOREH, LOADH, FREE}}
    \cup {Main(PushV(v) \o <<DUP, POP, 200, POP, FUNC_NORMAL>>) :
              v \in {Int32Value(7), ByteValue(65)}}
    \cup {Main(<<PUSH, ValueVoid, HALT>>), Main(<<PUSH, ValueInt32, 0>>),
          Main(<<LOAD, 0, 0, HALT>>), Main(<<STORE, 0>>)}

\* DEFSTRUCT "P" with one Int32 field "x" (defineStructs, lines 63-79).
DefP == <<DEFSTRUCT, 80, 0, 1, 120, 0, ValueInt32>>

\* The most parameters a function of the call programs takes.
MaxParams == 2

\* The bodies of the called function f; g is the address of function g.
Bodies == {"ret", "int", "float", "locals", "retv", "struct", "callg", "raw", "dangling"}

Body(tag, g) ==
    CASE tag = "ret"      -> <<RET>>
      [] tag = "int"      -> PushI(7) \o <<RET>>
      [] tag = "float"    -> PushV(Float32Value(F32One)) \o <<RET>>
      [] tag = "locals"   -> PushI(2) \o <<STORE, 0, 0, LOAD, 0, 0, RET>>
      [] tag = "retv"     -> <<RETV>>
      [] tag = "struct"   -> <<NEWSTRUCT, 80, 0, RET>>
      [] tag = "callg"    -> <<CALL>> \o U16(g) \o <<RET>>
      [] tag = "raw"      -> PushI(8) \o <<ALLOC, RET>>
      [] tag = "dangling" -> PushI(8) \o <<ALLOC, DUP, FREE, RET>>

\* The n arguments main pushes: Int32 11, 12, ...
RECURSIVE PushArgs(_)
PushArgs(n) == IF n = 0 THEN <<>> ELSE PushArgs(n - 1) \o PushI(10 + n)

\* main: an operand below the arguments, a local, the arguments, the CALL
\* of address f and the tail.
MainBody(n, f, tail) ==
    PushI(-7) \o PushV(Float32Value(F32One)) \o <<STORE, 0, 0>> \o PushArgs(n)
        \o <<CALL>> \o U16(f) \o tail

\* The functions main, f (n parameters, return kind ret, body tag) and g
\* (no parameter, returns Int32 2) behind the struct definition, in one of
\* three orders.
CallProgram(order, n, ret, tag, tail) ==
    LET hm == Hdr(FUNC_MAIN, 0, ValueVoid)
        hf == Hdr(FUNC_NORMAL, n, ret)
        hg == Hdr(FUNC_NORMAL, 0, ValueInt32)
        bg == PushI(2) \o <<RET>>
        lm == Len(MainBody(n, 0, tail))
        lf == Len(Body(tag, 0))
        d  == Len(DefP)
        \* the entry address of main, f and g
        am == CASE order = 1 -> d + Len(hm)
                [] order = 2 -> d + Len(hf) + lf + Len(hg) + Len(bg) + Len(hm)
                [] order = 3 -> d + Len(hg) + Len(bg) + Len(hm)
        af == CASE order = 1 -> am + lm + Len(hf)
                [] order = 2 -> d + Len(hf)
                [] order = 3 -> am + lm + Len(hf)
        ag == CASE order = 1 -> af + lf + Len(hg)
                [] order = 2 -> af + lf + Len(hg)
                [] order = 3 -> d + Len(hg)
        fm == hm \o MainBody(n, af, tail)
        ff == hf \o Body(tag, ag)
        fg == hg \o bg
    IN  DefP \o (CASE order = 1 -> fm \o ff \o fg
                   [] order = 2 -> ff \o fg \o fm
                   [] order = 3 -> fg \o fm \o ff)

CallPrograms ==
    {CallProgram(order, n, ret, tag, tail) :
        order \in 1..3, n \in 0..MaxParams,
        ret \in {ValueInt32, ValueFloat32, ValueVoid, ValueStruct},
        tag \in Bodies, tail \in {<<HALT>>, <<RET>>}}
    \* main without a HALT, running into the header of f
    \cup {CallProgram(1, 0, ValueInt32, "int", <<>>)}

\* A CALL of an address that is no function's entry; RET and RETV in the
\* outermost frame.
OutermostPrograms ==
    {Main(PushI(7) \o <<CALL>> \o U16(a) \o <<HALT>>) : a \in {6, 999}}
    \cup {Main(<<RET>>), Main(<<RETV>>), Main(PushI(7) \o <<RET>>),
          Main(PushV(Float32Value(F32One)) \o <<DUP, RET>>)}

\* The longest sequence of heap operations of a heap program.
MaxHeapOps == 2

\* Heap operations on the regions whose pointers are in locals 0 and 1.
StoreH(k, v) == <<LOAD, 0, k>> \o PushV(v) \o <<STOREH>>
StorePtr(k, j) == <<LOAD, 0, k, LOAD, 0, j, STOREH>>
LoadH(k) == <<LOAD, 0, k, LOADH>>
FreeH(k) == <<LOAD, 0, k, FREE>>

HeapOps ==
    {StoreH(0, Int32Value(-7)), StoreH(0, Float32Value(<<191, 192, 0, 0>>)),
     StoreH(0, ByteValue(65)), StoreH(1, Int32Value(2)), StorePtr(0, 1),
     LoadH(0), FreeH(0)}

RECURSIVE Flatten(_)
Flatten(ss) == IF ss = <<>> THEN <<>> ELSE Head(ss) \o Flatten(Tail(ss))

\* Two allocations kept in locals 0 and 1, then the heap operations.
HeapProgram(size0, size1, ops) ==
    Main(PushI(size0) \o <<ALLOC, STORE, 0, 0>> \o PushI(size1) \o <<ALLOC, STORE, 0, 1>>
         \o Flatten(ops) \o <<HALT>>)

HeapPrograms ==
    {HeapProgram(8, 8, ops) : ops \in UNION {[1..k -> HeapOps] : k \in 1..MaxHeapOps}}
    \cup {HeapProgram(s[1], s[2], <<StoreH(1, ByteValue(65)), LoadH(1)>>) :
             s \in {<<8, 4097>>, <<4097, 8>>, <<0, 8>>, <<-1, 8>>}}
    \cup {Main(PushV(Float32Value(F32One)) \o <<ALLOC, HALT>>)}

\* The allocating instructions: ALLOC of 8 bytes, STRALLOC of "hi", NEWARR
\* of two Int32 and NEWSTRUCT of P.  Each leaves a Ptr on the stack.
AllocKinds == {"alloc", "str", "arr", "struct"}

AllocOp(kind) ==
    IF kind = "alloc" THEN PushI(8) \o <<ALLOC>>
    ELSE IF kind = "str" THEN <<STRALLOC>> \o U16(2) \o <<104, 105>>
    ELSE IF kind = "arr" THEN PushI(2) \o <<NEWARR, ValueInt32>>
    ELSE <<NEWSTRUCT, 80, 0>>

\* What follows the two allocations of an allocation program.
AccessOps == {LoadH(0), LoadH(1), StoreH(0, Int32Value(-7)), FreeH(0)}

\* An allocation kept in local 0, freed or not, a second allocation kept in
\* local 1 or dropped, then the accesses.
AllocProgram(k0, freeFirst, k1, keep, ops) ==
    DefP \o Main(AllocOp(k0) \o <<STORE, 0, 0>>
                 \o (IF freeFirst THEN FreeH(0) ELSE <<>>)
                 \o AllocOp(k1) \o (IF keep THEN <<STORE, 0, 1>> ELSE <<POP>>)
                 \o Flatten(ops) \o <<HALT>>)

AllocPrograms ==
    {AllocProgram(k0, fk[1], k1, fk[2], ops) :
        k0 \in AllocKinds, k1 \in AllocKinds,
        fk \in {<<FALSE, TRUE>>, <<TRUE, TRUE>>, <<TRUE, FALSE>>},
        ops \in UNION {[1..k -> AccessOps] : k \in 1..MaxHeapOps}}

\* The element kinds of the array programs: the six kinds GetElementSize
\* knows, and Byte, which it refuses.
ElemKinds ==
    {ValueInt32, ValueFloat32, ValuePtr, ValueString, ValueArray, ValueStruct, ValueByte}

\* Code that leaves in local 3 a value of kind String, Array or Struct:
\* LOADH of a region so tagged, which is then freed.  Empty for the other
\* kinds.
PrepareTagged(kind) ==
    IF kind \in {ValueString, ValueArray, ValueStruct}
    THEN (IF kind = ValueString THEN AllocOp("str")
          ELSE IF kind = ValueArray THEN AllocOp("arr") ELSE AllocOp("struct"))
         \o <<STORE, 0, 2, LOAD, 0, 2, LOADH, STORE, 0, 3, LOAD, 0, 2, FREE>>
    ELSE <<>>

\* Code that pushes a value of the given kind: an immediate, the Ptr in
\* local 0 or the value PrepareTagged left in local 3.  alt selects a second
\* Int32 or Float32.
ValueSrc(kind, alt) ==
    IF kind = ValueInt32 THEN PushI(IF alt THEN -7 ELSE 7)
    ELSE IF kind = ValueFloat32
        THEN PushV(Float32Value(IF alt THEN <<191, 192, 0, 0>> ELSE F32One))
    ELSE IF kind = ValuePtr THEN <<LOAD, 0, 0>>
    ELSE IF kind = ValueByte THEN PushV(ByteValue(65))
    ELSE <<LOAD, 0, 3>>

\* stelem and ldelem on the array in local 0.
SetElem(i, src) == <<LOAD, 0, 0>> \o PushI(i) \o src \o <<STELEM>>
GetElem(i) == <<LOAD, 0, 0>> \o PushI(i) \o <<LDELEM>>

\* The greatest array length of the array programs.
MaxArrayLen == 2

\* newarr k of n elements; element 1 set first or not; element i set to a
\* value of kind vk; element j read.
ArrayProgram(k, n, first, i, vk, j) ==
    DefP \o Main(PrepareTagged(k) \o PushI(n) \o <<NEWARR, k, STORE, 0, 0>>
                 \o (IF first THEN SetElem(1, ValueSrc(k, TRUE)) ELSE <<>>)
                 \o SetElem(i, ValueSrc(vk, FALSE)) \o GetElem(j) \o <<HALT>>)

ArrayPrograms ==
    {ArrayProgram(k, MaxArrayLen, first, i, vk, j) :
        k \in ElemKinds, first \in BOOLEAN, i \in -1..MaxArrayLen,
        vk \in {ValueInt32, ValueFloat32}, j \in {0, 1}}
    \cup {ArrayProgram(k, MaxArrayLen, first, i, k, j) :
        k \in ElemKinds, first \in BOOLEAN, i \in -1..MaxArrayLen, j \in {0, 1}}
    \cup {ArrayProgram(ValueInt32, n, FALSE, 0, ValueInt32, 0) : n \in -2..1}
    \cup {Main(PushV(Float32Value(F32One)) \o <<NEWARR, ValueInt32, HALT>>),
          Main(<<LOAD, 0, 0, LDELEM>>)}

\* DEFSTRUCT "Q" with a field of each kind the scanner accepts: x Int32,
\* y Float32, p Ptr, s String, a Array of Int32, t Struct.
DefQ ==
    <<DEFSTRUCT, 81, 0, 6, 120, 0, ValueInt32, 121, 0, ValueFloat32, 112, 0, ValuePtr,
      115, 0, ValueString, 97, 0, ValueArray, ValueInt32, 116, 0, ValueStruct>>

\* The field names of the struct programs: the six fields of Q, and z, which
\* Q does not have.
FieldNames == {<<120>>, <<121>>, <<112>>, <<115>>, <<97>>, <<116>>, <<122>>}

\* stfield and fldget on the struct in local 0.
SetField(name, src) == <<LOAD, 0, 0>> \o src \o <<STFIELD>> \o name \o <<0>>
GetField(name) == <<LOAD, 0, 0, FLDGET>> \o name \o <<0>>

\* newstruct Q; field y set first or not; field f set to a value of kind
\* vk; field g read.
StructProgram(first, f, vk, g) ==
    DefP \o DefQ
    \o Main(PrepareTagged(vk) \o <<NEWSTRUCT, 81, 0, STORE, 0, 0>>
            \o (IF first THEN SetField(<<121>>, ValueSrc(ValueFloat32, TRUE)) ELSE <<>>)
            \o SetField(f, ValueSrc(vk, FALSE)) \o GetField(g) \o <<HALT>>)

StructPrograms ==
    {StructProgram(first, f, vk, g) :
        first \in BOOLEAN, f \in FieldNames, vk \in ElemKinds \ {ValueByte},
        g \in {<<120>>, <<121>>, <<115>>, <<122>>}}
    \cup {DefP \o DefQ \o Main(<<NEWSTRUCT, 81, 0, STORE, 0, 0>>
                               \o SetField(<<120>>, ValueSrc(ValueByte, FALSE))),
          <<DEFSTRUCT, 90, 0, 0>> \o DefQ \o Main(<<NEWSTRUCT, 90, 0, HALT>>),
          DefQ \o Main(PushI(7) \o <<FLDGET, 120, 0>>),
          DefQ \o Main(PushI(8) \o <<ALLOC, FLDGET, 120, 0>>),
          DefQ \o Main(PushI(8) \o <<ALLOC>> \o PushI(7) \o <<STFIELD, 120, 0>>)}

\* The jumps: push v; <jump> addr imm; push 7; halt; push 9; halt, with the
\* address of the second push, of the jump itself's end and one outside the
\* bytecode, with values of the right and the wrong kind; jmp to the same
\* addresses; a jump cut short.
JumpValues ==
    {Int32Value(1), Int32Value(2), Float32Value(F32One), Float32Value(F32Zero),
     Float32Value(F32NegZero), Float32Value(F32NaN), ByteValue(1)}

JumpImmediates == {FromInt32(1), F32One, F32Zero, F32NaN}

JumpTargets == {25, 18, 200}

CondJumps == {IJNE, IJE, FJNE, FJE}

JumpPrograms ==
    {Main(PushV(v) \o <<j>> \o U16(t) \o i \o PushI(7) \o <<HALT>> \o PushI(9) \o <<HALT>>) :
        v \in JumpValues, j \in CondJumps, t \in JumpTargets, i \in JumpImmediates}
    \cup {Main(<<JMP>> \o U16(t) \o PushI(7) \o <<HALT>> \o PushI(9) \o <<HALT>>) :
            t \in {14, 8, 200}}
    \cup {Main(<<j>> \o U16(12) \o F32One \o <<HALT>>) : j \in CondJumps}
    \cup {Main(<<j, 0>>) : j \in CondJumps \cup {JMP}}
    \cup {Main(PushI(1) \o <<j, 0, 5, 0>>) : j \in CondJumps}

\* EQ and NE on two Byte values, equal or not, and on two Ptr values, the
\* same address twice or two addresses.
EqualityPrograms ==
    {Main(PushV(ByteValue(65)) \o PushV(ByteValue(b)) \o <<o, HALT>>) :
        b \in {65, 66}, o \in {EQ, NE}}
    \cup {Main(PushI(8) \o <<ALLOC>> \o second \o <<o, HALT>>) :
            second \in {<<DUP>>, PushI(8) \o <<ALLOC>>}, o \in {EQ, NE}}

\* A live struct in local 0 and the address of a freed array in local 1,
\* then an element, field or string operation through one of them.
HeapErrorPrograms ==
    {DefP \o Main(AllocOp("struct") \o <<STORE, 0, 0>> \o AllocOp("arr")
                  \o <<STORE, 0, 1, LOAD, 0, 1, FREE, LOAD, 0, k>> \o access \o <<HALT>>) :
        k \in {0, 1},
        access \in {PushI(0) \o PushI(7) \o <<STELEM>>, PushI(0) \o <<LDELEM>>,
                    <<FLDGET, 120, 0>>, PushI(7) \o <<STFIELD, 120, 0>>,
                    <<SYSCALL, 0, STR_LEN>>}}

\* A byte written, a heap region and two locals, then an operation on
\* operands of the wrong kinds: an arithmetic opcode of each type, a
\* comparison, a conditional jump of each type.
WithState(body) ==
    Main(PushI(65) \o <<SYSCALL>> \o U16(WRITE_BYTE) \o PushI(8) \o <<ALLOC, STORE, 0, 0>>
         \o PushI(3) \o <<STORE, 0, 1>> \o PushI(5) \o body \o <<HALT>>)

WrongPairs ==
    {<<Int32Value(2), Float32Value(F32One)>>, <<Float32Value(F32One), Int32Value(2)>>,
     <<ByteValue(1), Int32Value(2)>>}

TypeErrorPrograms ==
    {WithState(PushV(pr[1]) \o PushV(pr[2]) \o <<o>>) :
        pr \in WrongPairs, o \in {IADD, IDIV, FADD, FMUL, EQ, LT, GE}}
    \cup {WithState(PushV(Float32Value(F32One)) \o <<j, 0, 5>> \o FromInt32(1)) : j \in {IJE, IJNE}}
    \cup {WithState(PushV(Int32Value(1)) \o <<j, 0, 5>> \o F32One) : j \in {FJE, FJNE}}

\* main stores 1 in slot 0, calls f and loads slot k; f stores 2 in slot
\* 0 and loads it, loads slot 0 without a store, or stores 2 in slot 1.
LocalsBody(tag) ==
    CASE tag = "store" -> PushI(2) \o <<STORE, 0, 0, LOAD, 0, 0, RETV>>
      [] tag = "load" -> <<LOAD, 0, 0, RETV>>
      [] tag = "other" -> PushI(2) \o <<STORE, 0, 1, RETV>>

LocalsProgram(tag, k) ==
    Main(PushI(1) \o <<STORE, 0, 0, CALL, 0, 26, LOAD, 0, k, HALT>>)
        \o Hdr(FUNC_NORMAL, 0, ValueVoid) \o LocalsBody(tag)

LocalsPrograms == {LocalsProgram(tag, k) : tag \in {"store", "load", "other"}, k \in {0, 1}}

\* Two allocations, the second freed, then a third allocation of each
\* kind while the first is live.
ReusePrograms ==
    {Main(PushI(8) \o <<ALLOC>> \o PushI(8) \o <<ALLOC, FREE>> \o third \o <<HALT>>) :
        third \in {PushI(8) \o <<ALLOC>>, <<STRALLOC, 0, 1, 104>>,
                   PushI(1) \o <<NEWARR, ValueInt32>>}}

\* A byte that is no executable opcode, then halt: the markers and values
\* above STFIELD.
UnknownOpcodePrograms ==
    {Main(<<b, HALT>>) : b \in {FUNC_NORMAL, FUNC_MAIN, DEFSTRUCT, STFIELD + 1, 255}}

\* The longest string literal of the string programs.
MaxStrLen == 2

\* The literals: every string of at most MaxStrLen bytes over NUL, 'h' and
\* 0xFF.
Literals == UNION {[1..n -> {0, 104, 255}] : n \in 0..MaxStrLen}

\* stralloc of a literal and syscall of an id, codeGenerator.go lines
\* 220-235.
StrAlloc(s) == <<STRALLOC>> \o U16(Len(s)) \o s
Syscall(id) == <<SYSCALL>> \o U16(id)

\* stralloc s; syscall id, for STR_LEN, an id that is STR_LEN modulo 256,
\* WRITE_BYTE, READ_BYTE and an id of no system call; two strings, or one
\* string twice, and STR_CAT or STR_EQUALS; the system calls on what is not a
\* string.
StringPrograms ==
    {Main(StrAlloc(s) \o Syscall(id) \o <<HALT>>) :
        s \in Literals, id \in {STR_LEN, 256, WRITE_BYTE, READ_BYTE, 5}}
    \cup {Main(StrAlloc(s1) \o StrAlloc(s2) \o Syscall(id) \o <<HALT>>) :
        s1 \in {<<>>, <<104>>}, s2 \in {<<104>>, <<104, 0>>}, id \in {STR_CAT, STR_EQUALS}}
    \cup {Main(StrAlloc(s) \o <<DUP>> \o Syscall(id) \o <<HALT>>) :
        s \in Literals, id \in {STR_CAT, STR_EQUALS}}
    \cup {Main(PushI(8) \o <<ALLOC>> \o Syscall(id) \o <<HALT>>) :
        id \in {STR_LEN, STR_CAT, STR_EQUALS}}
    \cup {Main(PushI(65) \o Syscall(WRITE_BYTE) \o <<HALT>>),
          Main(PushV(ByteValue(65)) \o Syscall(WRITE_BYTE) \o <<HALT>>),
          Main(PushI(7) \o Syscall(STR_LEN)),
          Main(<<STRALLOC, 0, 9, 104>>)}

\* Bytecode for NewVm to accept or refuse: none, no function, no MAIN, two
\* MAINs, a MAIN that is not Void, a header cut short, a MAIN marker that is
\* the immediate of a PUSH, a struct prelude the scan refuses.
ConstructionPrograms ==
    {<<>>, <<HALT>>,
     Hdr(FUNC_NORMAL, 0, ValueVoid) \o <<RETV>>,
     Main(<<HALT>>) \o Main(<<HALT>>),
     Hdr(FUNC_NORMAL, 1, ValueInt32) \o <<RET>> \o Main(<<HALT>>) \o Main(<<HALT>>),
     <<FUNC, FUNC_MAIN, 0>>,
     Main(<<HALT>>) \o <<FUNC, FUNC_NORMAL>>,
     Main(<<PUSH, ValueInt32, FUNC, FUNC_MAIN, 0, 0, HALT>>),
     Main(<<PUSH, ValueInt32, 0, FUNC, FUNC_NORMAL, 0, POP, HALT>>),
     <<DEFSTRUCT, 80, 0, 1, 120, 0, ValueByte>> \o Main(<<HALT>>),
     <<DEFSTRUCT, 80, 0, 2, 120, 0, ValueInt32>> \o Main(<<HALT>>)}
    \cup {Hdr(FUNC_MAIN, 0, k) \o <<HALT>> :
             k \in {ValueInt32, ValueFloat32, ValuePtr, ValueStruct}}

(***************************************************************************)
(* Parsed Programs for the assembler: functions with parameters and        *)
(* return kinds, a struct-returning function, structs with scalar and      *)
(* array fields, an immediate whose bytes hold the FUNC opcode, a CALL to  *)
(* a function defined later and a Program without main.                    *)
(***************************************************************************)
Bytes_int32 == <<105, 110, 116, 51, 50>>

AsmPush(n) == Instr(PUSH, <<Token("INT32", TextLit(Bytes_int32)), Token("INT", IntLit(n))>>)
AsmCall(name) == Instr(CALL, <<Token("IDENT", TextLit(name))>>)
AsmNewStruct(name) == Instr(NEWSTRUCT, <<Token("IDENT", TextLit(name))>>)
AsmOp(o) == Instr(o, <<>>)

ParsedFunction(name, params, returnType, structName, body) ==
    [Name |-> name, Params |-> params, ReturnType |-> returnType,
     ReturnStructName |-> structName, Body |-> body, Labels |-> [l \in {} |-> 0]]

StructField(name, type, arrayType) == [Name |-> name, Type |-> type, ArrayType |-> arrayType]

\* Names: "f", "g", "P", "x", "y", "a".
Name_f == <<102>>
Name_g == <<103>>
Name_P == <<80>>
Name_x == <<120>>
Name_y == <<121>>
Name_a == <<97>>

MainOf(body) == ParsedFunction(MainName, <<>>, ValueVoid, <<>>, body)

\* struct P { x int32; y float32 }
ScalarStruct ==
    [Name |-> Name_P,
     Fields |-> <<StructField(Name_x, ValueInt32, <<>>), StructField(Name_y, ValueFloat32, <<>>)>>]

\* struct P { a int32[] }, struct P { a float32[]; x int32 }
ArrayStructs ==
    {[Name |-> Name_P, Fields |-> <<StructField(Name_a, ValueArray, <<ValueInt32>>)>>],
     [Name |-> Name_P,
      Fields |-> <<StructField(Name_a, ValueArray, <<ValueFloat32>>),
                   StructField(Name_x, ValueInt32, <<>>)>>]}

FunctionF == ParsedFunction(Name_f, <<Name_x, Name_y>>, ValueInt32, <<>>,
                            <<Instr(LOAD, <<Token("INT", IntLit(0))>>), AsmOp(RETV)>>)

FunctionG == ParsedFunction(Name_g, <<>>, ValueStruct, Name_P, <<AsmNewStruct(Name_P), AsmOp(RETV)>>)

\* func g() -> void { call g; retv }
FunctionR == ParsedFunction(Name_g, <<>>, ValueVoid, <<>>, <<AsmCall(Name_g), AsmOp(RETV)>>)

PushValues == {1, 2, 37, 9472}

\* The label "L" and jumps to a label: jmp l, and ije/ijne l n, fje/fjne l w.
Name_L == <<76>>

AsmJmp(l) == Instr(JMP, <<Token("IDENT", TextLit(l))>>)
AsmIntJump(o, l, n) == Instr(o, <<Token("IDENT", TextLit(l)), Token("INT", IntLit(n))>>)
AsmFloatJump(o, l, w) == Instr(o, <<Token("IDENT", TextLit(l)), Token("FLOAT", FloatLit(w))>>)
AsmPushByte(n) == Instr(PUSH, <<Token("BYTE_TYPE", TextLit(<<98, 121, 116, 101>>)),
                               Token("INT", IntLit(n))>>)

\* main with the label L before instruction i of its body (instIndex is
\* the number of instructions parsed before the label, parser.go 422-428).
MainWithLabel(body, i) == [MainOf(body) EXCEPT !.Labels = [l \in {Name_L} |-> i]]

\* Programs Generate refuses: a push with one operand and with three, a
\* call of an unknown function, jumps to an unknown label, newstruct of an
\* unknown struct, byte literals out of range, and a bad instruction in the
\* second function after a good first one.
RefusedBodies ==
    {<<Instr(PUSH, <<Token("INT32", TextLit(Bytes_int32))>>)>>,
     <<AsmPush(1), Instr(PUSH, <<Token("INT32", TextLit(Bytes_int32)), Token("INT", IntLit(1)),
                                 Token("INT", IntLit(2))>>)>>,
     <<Instr(PUSH, <<>>)>>,
     <<AsmCall(Name_g)>>,
     <<AsmPush(1), AsmJmp(Name_L)>>,
     <<AsmPush(1), AsmIntJump(IJE, Name_L, 1)>>,
     <<AsmPush(1), AsmFloatJump(FJNE, Name_L, F32One)>>,
     <<AsmNewStruct(Name_x)>>,
     <<AsmPushByte(256)>>,
     <<AsmPushByte(-1), AsmPush(1)>>}

\* func f() -> int32 { push int32 2; push int32 1 }
FunctionH == ParsedFunction(Name_f, <<>>, ValueInt32, <<>>, <<AsmPush(2), AsmPush(1)>>)

\* Programs without jump or call: main ending in ret, in retv, in neither,
\* alone or followed by a function that execution runs into.
StraightSources ==
    {[Structs |-> <<>>, Functions |-> <<MainOf(<<AsmPush(1)>> \o end)>> \o rest] :
        end \in {<<>>, <<AsmOp(RET)>>, <<AsmOp(RETV)>>, <<AsmOp(POP), AsmOp(POP)>>},
        rest \in {<<>>, <<FunctionF>>, <<FunctionH>>}}

\* Programs with jumps to a label that exists, and byte literals in range.
LabelSources ==
    {[Structs |-> <<>>,
      Functions |-> <<MainWithLabel(<<AsmPush(1), j, AsmPush(7), AsmPush(9)>>, i)>>] :
        j \in {AsmJmp(Name_L), AsmIntJump(IJE, Name_L, 1), AsmIntJump(IJNE, Name_L, -2),
               AsmFloatJump(FJE, Name_L, F32One), AsmFloatJump(FJNE, Name_L, F32NaN)},
        i \in {0, 3, 4}}
    \cup {[Structs |-> <<>>, Functions |-> <<MainOf(<<AsmPushByte(n)>>)>>] : n \in {0, 255}}

Sources ==
    {[Structs |-> <<>>, Functions |-> <<MainOf(<<AsmPush(n), AsmPush(1), AsmOp(IADD)>>)>>] :
        n \in PushValues}
    \cup {[Structs |-> <<>>,
           Functions |-> <<FunctionF, MainOf(<<AsmPush(n), AsmPush(2), AsmCall(Name_f)>>)>>] :
             n \in PushValues}
    \cup {[Structs |-> <<>>, Functions |-> <<MainOf(<<AsmPush(1), AsmCall(Name_f)>>), FunctionF>>],
          [Structs |-> <<>>, Functions |-> <<FunctionF>>],
          [Structs |-> <<>>, Functions |-> <<MainOf(<<AsmNewStruct(Name_P)>>)>>],
          [Structs |-> <<ScalarStruct>>, Functions |-> <<MainOf(<<AsmNewStruct(Name_P)>>)>>],
          [Structs |-> <<ScalarStruct>>,
           Functions |-> <<FunctionG, MainOf(<<AsmNewStruct(Name_P)>>)>>],
          [Structs |-> <<>>, Functions |-> <<FunctionG, MainOf(<<AsmPush(1)>>)>>],
          [Structs |-> <<>>, Functions |-> <<FunctionR, MainOf(<<AsmPush(1)>>)>>]}
    \cup {[Structs |-> <<st>>, Functions |-> <<MainOf(<<AsmPush(1)>>)>>] : st \in ArrayStructs}
    \cup {[Structs |-> <<>>, Functions |-> <<>>]}
    \cup {[Structs |-> <<ScalarStruct>>, Functions |-> <<MainOf(body)>>] : body \in RefusedBodies}
    \cup {[Structs |-> <<ScalarStruct>>,
           Functions |-> <<FunctionF, MainOf(body)>>] : body \in RefusedBodies}
    \cup LabelSources \cup StraightSources


Programs == ArithPrograms \cup StackPrograms \cup CallPrograms \cup OutermostPrograms
                \cup HeapPrograms \cup AllocPrograms \cup ArrayPrograms
                \cup StructPrograms \cup StringPrograms \cup ConstructionPrograms
                \cup JumpPrograms \cup UnknownOpcodePrograms \cup TypeErrorPrograms
                \cup LocalsPrograms \cup ReusePrograms \cup HeapErrorPrograms
                \cup EqualityPrograms

(***************************************************************************)
(* The VM as NewVm leaves it on one of the programs, then VM.Run.          *)
(***************************************************************************)
NoMemory == [a \in {} |-> [len |-> 0, data |-> EmptyData, desc |-> NoStruct]]

NoProgram == [Structs |-> <<>>, Functions |-> <<>>]

\* The generator's fields before Generate.
NoGenerator(status) ==
    [status |-> status, bytecode |-> <<>>, functionTable |-> [n \in {} |-> 0],
     structTable |-> {}, err |-> ""]

\* runFile holds a parsed Program of Sources and has not generated yet.
InitSource ==
    /\ program \in Sources
    /\ asm = NoGenerator("pending")
    /\ Bytecode = <<>>
    /\ Functions = [a \in {} |-> 0]
    /\ Structs = [s \in {} |-> NoStruct]
    /\ Ip = 0
    /\ Running = FALSE
    /\ CallStack = <<>>
    /\ Memory = NoMemory
    /\ fatal = ""
    /\ op = -1
    /\ pre = [Ip |-> 0, CallStack |-> <<>>, Memory |-> NoMemory,
              live |-> {}, freed |-> {}, op |-> -1, from |-> 0, init |-> FALSE,
              output |-> <<>>]
    /\ output = <<>>
    /\ written = <<>>
    /\ calls = <<>>
    /\ stored = [a \in {} |-> ZeroValue]
    /\ live = {}
    /\ freed = {}

\* runFile, src/main.go lines 33-43: Generate, log.Fatalf on its error,
\* else NewVm on the bytecode (vm.Run is the steps that follow).
Assemble ==
    /\ asm.status = "pending"
    /\ fatal = ""
    /\ LET g == Generate(program)
           vm == NewVm(g.bytecode)
       IN  /\ asm' = [g EXCEPT !.status = "done"]
           /\ IF g.err # ""
              THEN /\ fatal' = "Failed to generate bytecode"
                   /\ UNCHANGED <<Bytecode, Functions, Structs, Ip, Running, CallStack, pre,
                                  written>>
              ELSE /\ Bytecode' = g.bytecode
                   /\ Functions' = vm.Functions
                   /\ Structs' = vm.Structs
                   /\ Ip' = vm.Ip
                   /\ Running' = vm.Running
                   /\ CallStack' = vm.CallStack
                   /\ fatal' = vm.fatal
                   /\ pre' = [Ip |-> vm.Ip, CallStack |-> vm.CallStack, Memory |-> NoMemory,
                              live |-> {}, freed |-> {}, op |-> -1, from |-> vm.Ip,
                              init |-> TRUE, output |-> <<>>]
                   /\ written' = [i \in DOMAIN vm.CallStack |-> NoLocals]
    /\ UNCHANGED <<Memory, op, calls, stored, live, freed, program, output>>

\* The VM as NewVm leaves it on one of the bytecode programs.
InitBytecode ==
    \E bc \in Programs :
        LET vm == NewVm(bc) IN
        /\ program = NoProgram
        /\ asm = NoGenerator("none")
        /\ Bytecode = bc
        /\ Functions = vm.Functions
        /\ Structs = vm.Structs
        /\ Ip = vm.Ip
        /\ Running = vm.Running
        /\ CallStack = vm.CallStack
        /\ Memory = [a \in {} |-> [len |-> 0, data |-> EmptyData, desc |-> NoStruct]]
        /\ fatal = vm.fatal
        /\ op = -1
        /\ pre = [Ip |-> vm.Ip, CallStack |-> vm.CallStack,
                  Memory |-> [a \in {} |-> [len |-> 0, data |-> EmptyData, desc |-> NoStruct]],
                  live |-> {}, freed |-> {}, op |-> -1, from |-> vm.Ip,
                  init |-> TRUE, output |-> <<>>]
        /\ output = <<>>
        /\ written = [i \in DOMAIN vm.CallStack |-> NoLocals]
        /\ calls = <<>>
        /\ stored = [a \in {} |-> ZeroValue]
        /\ live = {}
        /\ freed = {}

Init == InitBytecode \/ InitSource

Next ==
    \/ StepHALT \/ StepPUSH \/ StepPOP \/ StepDUP
    \/ StepIADD \/ StepISUB \/ StepIMUL \/ StepIDIV
    \/ StepFADD \/ StepFSUB \/ StepFMUL \/ StepFDIV
    \/ StepEQ \/ StepNE \/ StepLT \/ StepLE \/ StepGT \/ StepGE
    \/ StepSTORE \/ StepLOAD \/ StepCALL \/ StepRET \/ StepRETV
    \/ StepALLOC \/ StepFREE \/ StepLOADH \/ StepSTOREH \/ StepNEWSTRUCT
    \/ StepSTRALLOC \/ StepNEWARR \/ StepLDELEM \/ StepSTELEM \/ StepSYSCALL
    \/ StepFLDGET \/ StepSTFIELD
    \/ StepJMP \/ StepIJNE \/ StepIJE \/ StepFJNE \/ StepFJE
    \/ StepFUNC \/ StepNoCase \/ StepPanic
    \/ Assemble

Spec == Init /\ [][Next]_vars

(***************************************************************************)
(* The properties.  They read the state a step leaves and, through the     *)
(* history variables, the state it started from.                           *)
(***************************************************************************)
\* The operand stack of the current frame before the last step, its top
\* (the first value a case pops), the value below it (the second popped)
\* and what lies below those two.
PreStack == Top(pre.CallStack).LocalStack
FirstPopped == PreStack[Len(PreStack)]
SecondPopped == PreStack[Len(PreStack) - 1]
BelowTwo == SubSeq(PreStack, 1, Len(PreStack) - 2)

\* The operand stack of the current frame now.
CurStack == Top(CallStack).LocalStack

\* The last step was a binary case o that found two operands of kind k.
Binary(o, k) ==
    /\ op = o
    /\ Len(pre.CallStack) > 0
    /\ Len(PreStack) >= 2
    /\ FirstPopped.Kind = k
    /\ SecondPopped.Kind = k

\* The last step was a RET that popped the frame of a CALL.
Returned == op = RET /\ fatal = "" /\ Len(CallStack) = Len(pre.CallStack) - 1

\* C1: call protocol.  When the frame created by CALL f (n parameters, the
\* caller's operand stack being S followed by a1..an) executes a RET that
\* completes with r on top, the caller's operand stack is S followed by r,
\* the caller's locals are what they were at the CALL, and Ip is the offset
\* just after the CALL's 16-bit operand.
C1_CallProtocol ==
    Returned =>
        LET c == calls[Len(CallStack)]
            n == Functions[c.target].ParamCount
            S == SubSeq(c.before, 1, Len(c.before) - n)
            r == FirstPopped
        IN  /\ CurStack = Append(S, r)
            /\ Top(CallStack).Locals = c.locals
            /\ Ip = c.at + 3

\* C1 happens: a RET returned 7 from a call of two arguments that had one
\* operand below them and a local in the caller.
C1_Witness ==
    /\ Returned
    /\ Functions[calls[Len(CallStack)].target].ParamCount = 2
    /\ Len(calls[Len(CallStack)].before) = 3
    /\ CurStack = <<Int32Value(-7), Int32Value(7)>>
    /\ DOMAIN Top(CallStack).Locals = {0}

\* C2: immediately after CALL addr16 of a function of n parameters, a new
\* top frame holds exactly the n arguments in their original order, has no
\* locals and the Ip after the operand as return address, and Ip is addr16;
\* a CALL of an address that is no key of the function table is fatal and
\* creates no frame.
C2_CallFrame ==
    (op = CALL /\ Len(pre.CallStack) > 0 /\ pre.Ip + 2 < Len(Bytecode)) =>
        LET addr16 == Uint16At(Bytecode, pre.Ip + 1) IN
        IF addr16 \notin DOMAIN Functions
        THEN fatal # "" /\ CallStack = pre.CallStack
        ELSE LET n == Functions[addr16].ParamCount IN
             Len(PreStack) >= n =>
                /\ fatal = ""
                /\ Len(CallStack) = Len(pre.CallStack) + 1
                /\ CurStack = SubSeq(PreStack, Len(PreStack) - n + 1, Len(PreStack))
                /\ Top(CallStack).Locals = NoLocals
                /\ Top(CallStack).ReturnAddress = pre.Ip + 3
                /\ Ip = addr16
                /\ SubSeq(CallStack, 1, Len(pre.CallStack)) =
                       [pre.CallStack EXCEPT ![Len(pre.CallStack)].LocalStack =
                           SubSeq(PreStack, 1, Len(PreStack) - n)]

\* C2 happens: a CALL moved the arguments 11 and 12 into a new frame.
C2_Witness ==
    /\ op = CALL
    /\ fatal = ""
    /\ Len(CallStack) = 2
    /\ CurStack = <<Int32Value(11), Int32Value(12)>>
    /\ Len(PreStack) = 3

\* Whether the value v may be returned from a function of return kind k,
\* the heap being mem.
Returnable(k, v, mem) ==
    \/ v.Kind = k
    \/ /\ k = ValueStruct
       /\ v.Kind = ValuePtr
       /\ v.Ptr \in DOMAIN mem
       /\ ReadByte(mem[v.Ptr], 0) = ValueStruct

\* C3: a RET in a frame created by CALL f is accepted exactly when the kind
\* of the value on top equals f's declared return kind, or that kind is
\* Struct and the value is a Ptr to a live region tagged Struct; otherwise
\* it is fatal.  The function consulted is the CALL's target.
C3_ReturnTypeCheck ==
    (op = RET /\ Len(pre.CallStack) > 1 /\ Len(PreStack) > 0) =>
        LET f == Functions[calls[Len(pre.CallStack) - 1].target]
        IN  fatal = "" <=> Returnable(f.ReturnType, FirstPopped, pre.Memory)

\* C4: RET in the outermost frame (return address = the sentinel) ends the
\* program cleanly, Running false and no fatal error, whatever the operand
\* stack holds, the empty stack included.
C4_OutermostRet ==
    (op = RET /\ Len(pre.CallStack) > 0 /\ Top(pre.CallStack).ReturnAddress = Sentinel) =>
        ~Running /\ fatal = ""

\* C5: ISUB on Int32 operands, b first popped and a second popped, pushes
\* Int32(a - b) in 32-bit two's complement.
C5_ISubSecondMinusFirst ==
    Binary(ISUB, ValueInt32) =>
        /\ fatal = ""
        /\ CurStack = Append(BelowTwo,
                         [Kind |-> ValueInt32,
                          Raw |-> SubWord(SecondPopped.Raw, FirstPopped.Raw), Ptr |-> 0])

\* q is a / b truncated toward zero in int32 (b not 0); the one quotient
\* int32 cannot hold, MinInt32 / -1, wraps to MinInt32.
TruncQuotient(a, b, q) ==
    IF a = MinInt32 /\ b = -1 THEN q = MinInt32
    ELSE LET r == a - q * b IN
         /\ (a >= 0 => r >= 0) /\ (a <= 0 => r <= 0)
         /\ (b > 0 => r < b /\ -r < b)
         /\ (b < 0 => r > b /\ -r > b)

\* C6: with b first popped and a second popped, IDIV pushes a / b truncated
\* toward zero, FSUB pushes a - b and FDIV pushes a / b; each pops exactly
\* two values and pushes exactly one.
C6_SecondIsLeftOperand ==
    /\ (Binary(IDIV, ValueInt32) /\ ToInt32(FirstPopped.Raw) # 0) =>
          /\ fatal = ""
          /\ Len(CurStack) = Len(PreStack) - 1
          /\ SubSeq(CurStack, 1, Len(CurStack) - 1) = BelowTwo
          /\ Top(CurStack).Kind = ValueInt32
          /\ TruncQuotient(ToInt32(SecondPopped.Raw), ToInt32(FirstPopped.Raw),
                           ToInt32(Top(CurStack).Raw))
    /\ Binary(FSUB, ValueFloat32) =>
          /\ fatal = ""
          /\ CurStack = Append(BelowTwo,
                           Float32Value(F32Sub(SecondPopped.Raw, FirstPopped.Raw)))
    /\ (Binary(FDIV, ValueFloat32) /\ ~F32IsZero(FirstPopped.Raw)) =>
          /\ fatal = ""
          /\ CurStack = Append(BelowTwo,
                           Float32Value(F32Div(SecondPopped.Raw, FirstPopped.Raw)))

\* C6 happens: IDIV of -7 (pushed first) by 2 left -3.
C6_Witness ==
    /\ Binary(IDIV, ValueInt32)
    /\ SecondPopped = Int32Value(-7)
    /\ FirstPopped = Int32Value(2)
    /\ fatal = ""
    /\ CurStack = <<Int32Value(-3)>>

\* C7: IDIV and FDIV whose divisor (first popped) is zero are fatal and
\* push no result; a zero dividend with a non-zero divisor is no error.
C7_DivisionByZero ==
    \A o \in {IDIV, FDIV} :
        LET k == IF o = IDIV THEN ValueInt32 ELSE ValueFloat32
            zero == IF o = IDIV THEN ToInt32(FirstPopped.Raw) = 0
                    ELSE F32IsZero(FirstPopped.Raw)
        IN  Binary(o, k) =>
                IF zero THEN ~Live /\ fatal # "" /\ CurStack = BelowTwo
                ELSE fatal = "" /\ Len(CurStack) = Len(PreStack) - 1

\* C7 happens: FDIV of 1.0 by -0.0 stopped the VM.
C7_Witness ==
    /\ Binary(FDIV, ValueFloat32)
    /\ FirstPopped = Float32Value(F32NegZero)
    /\ SecondPopped = Float32Value(F32One)
    /\ fatal = "Division by zero"

\* C8: on Int32 operands, x first popped and y second popped, LT pushes
\* Int32(1) iff y < x, LE iff y <= x, GE iff y >= x, and Int32(0)
\* otherwise: GE on (x, y) is LE with the operands the other way round.
C8_IntComparisons ==
    \A o \in {LT, LE, GE} :
        Binary(o, ValueInt32) =>
            LET x == ToInt32(FirstPopped.Raw)
                y == ToInt32(SecondPopped.Raw)
                truth == CASE o = LT -> y < x
                           [] o = LE -> y <= x
                           [] o = GE -> x <= y
            IN  /\ fatal = ""
                /\ CurStack = Append(BelowTwo, Int32Value(IF truth THEN 1 ELSE 0))

\* C8 happens: GE with 7 pushed first and 2 second left 1.
C8_Witness ==
    /\ Binary(GE, ValueInt32)
    /\ SecondPopped = Int32Value(7)
    /\ FirstPopped = Int32Value(2)
    /\ CurStack = <<Int32Value(1)>>

\* C9: on two operands of the same numeric kind, x first popped and y
\* second popped, GT pushes Int32(1) exactly when not y < x, else Int32(0).
C9_GtIsNotLess ==
    \A k \in {ValueInt32, ValueFloat32} :
        Binary(GT, k) =>
            LET less == IF k = ValueInt32
                        THEN ToInt32(SecondPopped.Raw) < ToInt32(FirstPopped.Raw)
                        ELSE F32Less(SecondPopped.Raw, FirstPopped.Raw)
            IN  /\ fatal = ""
                /\ CurStack = Append(BelowTwo, Int32Value(IF less THEN 0 ELSE 1))

\* C9 happens: GT on two equal operands left 1.
C9_Witness ==
    /\ Binary(GT, ValueInt32)
    /\ FirstPopped = SecondPopped
    /\ CurStack = <<Int32Value(1)>>

\* C10: STOREH(addr, v) of an Int32, Float32 or Byte v, then LOADH(addr)
\* with no store to or free of addr in between, pushes a value of v's kind
\* and payload.
C10_ScalarRoundTrip ==
    (/\ op = LOADH
     /\ Len(pre.CallStack) > 0
     /\ Len(PreStack) > 0
     /\ FirstPopped.Kind = ValuePtr
     /\ FirstPopped.Ptr \in DOMAIN stored
     /\ stored[FirstPopped.Ptr].Kind \in {ValueInt32, ValueFloat32, ValueByte}) =>
        /\ fatal = ""
        /\ Top(CurStack).Kind = stored[FirstPopped.Ptr].Kind
        /\ Top(CurStack).Raw = stored[FirstPopped.Ptr].Raw

\* The last step was a LOADH or STOREH that found a Ptr where it pops one;
\* AccessPtr is the address of that Ptr.
HeapAccess ==
    /\ op \in {LOADH, STOREH}
    /\ Len(pre.CallStack) > 0
    /\ op = LOADH => Len(PreStack) >= 1 /\ FirstPopped.Kind = ValuePtr
    /\ op = STOREH => Len(PreStack) >= 2 /\ SecondPopped.Kind = ValuePtr

AccessPtr == IF op = LOADH THEN FirstPopped.Ptr ELSE SecondPopped.Ptr

\* C11 as stated: after any sequence of ALLOC, STRALLOC, NEWARR, NEWSTRUCT
\* and FREE, a LOADH or STOREH through a Ptr whose region has been allocated
\* and not freed succeeds, and one through a Ptr whose region has been freed
\* reports an error, also when further allocations happened after the FREE.
C11_FreedPtrFails ==
    HeapAccess =>
        /\ (AccessPtr \in live /\ AccessPtr \notin freed) => fatal = ""
        /\ AccessPtr \in freed => fatal # ""

\* C11, amended: a LOADH or STOREH through a Ptr succeeds exactly when the
\* Ptr's address is live, that is when an allocation returned it and no FREE
\* has taken it since; a Ptr kept from before a FREE succeeds again once a
\* later allocation has received the same address.
C11_AddressLiveness ==
    HeapAccess => (fatal = "" <=> AccessPtr \in live)

\* C11 happens: an access through the Ptr in local 0, whose region was freed
\* and whose address a later allocation received, succeeded.
C11_Witness ==
    /\ HeapAccess
    /\ AccessPtr \in freed
    /\ AccessPtr \in live
    /\ 0 \in DOMAIN Top(CallStack).Locals
    /\ Top(CallStack).Locals[0] = PtrValue(AccessPtr)
    /\ fatal = ""

\* The last step was a FREE that found a Ptr on top of the operand stack.
FreeOfPtr ==
    /\ op = FREE
    /\ Len(pre.CallStack) > 0
    /\ Len(PreStack) >= 1
    /\ FirstPopped.Kind = ValuePtr

\* C12: FREE of an address that is not a key of the heap map (never
\* allocated, or freed and not handed out again) is an error and leaves the
\* map and every region as they were; FREE of a live address removes exactly
\* that entry and changes no other, so a second FREE of the same Ptr is an
\* error.
C12_Free ==
    FreeOfPtr =>
        LET p == FirstPopped.Ptr IN
        /\ p \in pre.live <=> p \in DOMAIN pre.Memory
        /\ p \notin DOMAIN pre.Memory => fatal # "" /\ Memory = pre.Memory
        /\ p \in DOMAIN pre.Memory =>
              /\ fatal = ""
              /\ DOMAIN Memory = DOMAIN pre.Memory \ {p}
              /\ \A q \in DOMAIN Memory : Memory[q] = pre.Memory[q]
        /\ (p \in pre.freed /\ p \notin pre.live) => fatal # ""

\* C12 happens: a second FREE of the same Ptr failed and left the other live
\* region in place.
C12_Witness ==
    /\ FreeOfPtr
    /\ FirstPopped.Ptr \in pre.freed
    /\ FirstPopped.Ptr \notin pre.live
    /\ fatal # ""
    /\ Memory = pre.Memory
    /\ DOMAIN Memory # {}

\* The last step was a STELEM that popped a value, an Int32 index and a Ptr
\* to a live region tagged Array.
StelemOnArray ==
    /\ op = STELEM
    /\ Len(pre.CallStack) > 0
    /\ Len(PreStack) >= 3
    /\ SecondPopped.Kind = ValueInt32
    /\ PreStack[Len(PreStack) - 2].Kind = ValuePtr
    /\ PreStack[Len(PreStack) - 2].Ptr \in DOMAIN pre.Memory
    /\ ReadByte(pre.Memory[PreStack[Len(PreStack) - 2].Ptr], 0) = ValueArray

\* C13: on an array allocated by AllocateArray(k, n), for every element
\* kind k, every index 0 <= i < n and every value v of kind k,
\* SetArrayElement(a, i, v) succeeds, GetArrayElement(a, i) then returns v,
\* and GetArrayElement(a, j) for every j # i returns what it returned before.
C13_ArrayRoundTrip ==
    StelemOnArray =>
        LET a == PreStack[Len(PreStack) - 2].Ptr
            i == ToInt32(SecondPopped.Raw)
            v == FirstPopped
            k == ReadByte(pre.Memory[a], 1)
            n == ToInt32(ReadWordLE(pre.Memory[a], 2))
        IN  (0 <= i /\ i < n /\ v.Kind = k) =>
                /\ fatal = ""
                /\ GetArrayElement(Memory, a, i) = [value |-> v, err |-> ""]
                /\ \A j \in (0..(n - 1)) \ {i} :
                      GetArrayElement(Memory, a, j) = GetArrayElement(pre.Memory, a, j)

\* The last step was a STFIELD that popped a value and a Ptr to a live
\* region tagged Struct and read the name of one of the struct's fields.
StfieldOnStruct ==
    /\ op = STFIELD
    /\ Len(pre.CallStack) > 0
    /\ Len(PreStack) >= 2
    /\ SecondPopped.Kind = ValuePtr
    /\ SecondPopped.Ptr \in DOMAIN pre.Memory
    /\ ReadByte(pre.Memory[SecondPopped.Ptr], 0) = ValueStruct
    /\ FieldIndex(pre.Memory[SecondPopped.Ptr].desc,
                  extractString([Machine EXCEPT !.Ip = pre.Ip + 1]).str) > 0

\* C14: on a struct p allocated by AllocateStruct, for every field f of its
\* struct type, after SetStructureField(p, f, v) with v of f's kind
\* GetStructField(p, f) returns v, and the set leaves the value read from
\* every other field g of the same struct unchanged.
C14_StructRoundTrip ==
    StfieldOnStruct =>
        LET p == SecondPopped.Ptr
            v == FirstPopped
            structType == pre.Memory[p].desc
            f == extractString([Machine EXCEPT !.Ip = pre.Ip + 1]).str
            field == structType.Fields[FieldIndex(structType, f)]
        IN  v.Kind = field.Type =>
                /\ fatal = ""
                /\ GetStructField(Memory, p, f) = [value |-> v, err |-> ""]
                /\ \A i \in DOMAIN structType.Fields :
                      structType.Fields[i].Name # f =>
                          GetStructField(Memory, p, structType.Fields[i].Name)
                              = GetStructField(pre.Memory, p, structType.Fields[i].Name)

\* C14 happens: a field other than y was set to a value of its kind while y
\* held the Float32 -1.5 written before, and y still reads -1.5.
C14_Witness ==
    /\ StfieldOnStruct
    /\ fatal = ""
    /\ extractString([Machine EXCEPT !.Ip = pre.Ip + 1]).str # <<121>>
    /\ Memory # pre.Memory
    /\ GetStructField(pre.Memory, SecondPopped.Ptr, <<121>>).value
           = Float32Value(<<191, 192, 0, 0>>)
    /\ GetStructField(Memory, SecondPopped.Ptr, <<121>>).value
           = Float32Value(<<191, 192, 0, 0>>)

\* The literal of the STRALLOC at offset p of the bytecode.
LiteralAt(p) == Slice(Bytecode, p + 3, p + 3 + Uint16At(Bytecode, p + 1))

\* C15: for every string s, LoadString(AllocateString(s)) returns s, and
\* STRALLOC of a literal s followed by SYSCALL 0 (STR_LEN) leaves
\* Int32(len(s)) on top of the operand stack in place of the Ptr.
C15_StringRoundTrip ==
    /\ (op = STRALLOC /\ fatal = "") =>
          LoadString(Memory, Top(CurStack).Ptr) = [str |-> LiteralAt(pre.Ip), err |-> ""]
    /\ (/\ op = SYSCALL
        /\ Uint16At(Bytecode, pre.Ip + 1) = STR_LEN
        /\ pre.op = STRALLOC) =>
          /\ fatal = ""
          /\ CurStack = Append(SubSeq(PreStack, 1, Len(PreStack) - 1),
                               Int32Value(Len(LiteralAt(pre.from))))

\* C15 happens: STR_LEN after STRALLOC of a two-byte literal with a NUL in
\* it left Int32(2) where the Ptr was.
C15_Witness ==
    /\ op = SYSCALL
    /\ Uint16At(Bytecode, pre.Ip + 1) = STR_LEN
    /\ pre.op = STRALLOC
    /\ 0 \in {LiteralAt(pre.from)[i] : i \in 1..Len(LiteralAt(pre.from))}
    /\ FirstPopped.Kind = ValuePtr
    /\ CurStack = <<Int32Value(2)>>

\* The tags of the regions STRALLOC, NEWARR and NEWSTRUCT create.
ObjectTags == {ValueString, ValueArray, ValueStruct}

\* C16: every heap load and store checks the region's tag: STOREH of a
\* scalar into a region tagged String, Array or Struct is rejected with an
\* error, LOADH of such a region is rejected with an error, and so the tag
\* byte of such a region never changes while the region is live.
C16_TagChecks ==
    /\ (/\ HeapAccess
        /\ AccessPtr \in DOMAIN pre.Memory
        /\ ReadByte(pre.Memory[AccessPtr], 0) \in ObjectTags
        /\ op = STOREH => FirstPopped.Kind \in {ValueInt32, ValueFloat32, ValueByte}) =>
            fatal # ""
    /\ \A a \in DOMAIN pre.Memory \cap DOMAIN Memory :
          ReadByte(pre.Memory[a], 0) \in ObjectTags =>
              ReadByte(Memory[a], 0) = ReadByte(pre.Memory[a], 0)

\* The offsets at which the scan of bc from ip on finds a FUNC header: a
\* FUNC byte with its marker, parameter count and return kind, found while
\* walking byte by byte and continuing after each header (and after the
\* NUL-ended name of a Struct return kind).
RECURSIVE Headers(_, _)
Headers(bc, ip) ==
    IF ip + 4 >= Len(bc) THEN {}
    ELSE IF At(bc, ip) # FUNC THEN Headers(bc, ip + 1)
    ELSE {ip} \cup Headers(bc, IF At(bc, ip + 4) = ValueStruct
                               THEN FindNul(bc, ip + 5) + 1 ELSE ip + 5)

\* The headers flagged MAIN.
MainHeaders(bc) == {p \in Headers(bc, 0) : At(bc, p + 1) = FUNC_MAIN}

\* No instruction has been executed: the state is the one NewVm left.
Constructed == pre.init

\* C17: construction succeeds only for bytecode in which the scan finds
\* exactly one FUNC header flagged MAIN, of return kind Void (bytecode with
\* no MAIN, several MAINs or a non-Void MAIN is fatal); then Ip is the offset
\* just after that header, Running is true and the call stack is one frame
\* with no operands, no locals and the sentinel return address.
C17_Construction ==
    (Constructed /\ fatal = "") =>
        /\ Cardinality(MainHeaders(Bytecode)) = 1
        /\ \A p \in MainHeaders(Bytecode) :
              /\ At(Bytecode, p + 4) = ValueVoid
              /\ Ip = p + 5
        /\ Running
        /\ CallStack = <<[Locals |-> NoLocals, ReturnAddress |-> Sentinel, LocalStack |-> <<>>]>>

\* C17 happens: a VM was constructed on bytecode with three headers whose
\* MAIN is not the first.
C17_Witness ==
    /\ Constructed
    /\ fatal = ""
    /\ Cardinality(Headers(Bytecode, 0)) = 3
    /\ \E p \in MainHeaders(Bytecode) : p > 0 /\ \E q \in Headers(Bytecode, 0) : q < p
    /\ Ip \in DOMAIN Functions
    /\ Functions[Ip].isMain

\* The last step executed a FUNC opcode that stood at the start of a header
\* the scan recorded, and whose return kind is not Struct.
FuncFallThrough ==
    /\ op = FUNC
    /\ pre.Ip \in Headers(Bytecode, 0)
    /\ At(Bytecode, pre.Ip + 4) # ValueStruct

\* C20: executing a FUNC opcode at offset p whose return kind is not Struct
\* changes nothing but Ip, which becomes p + 5, the entry address the scan
\* recorded for that function.
C20_FuncSkip ==
    FuncFallThrough =>
        /\ Ip = pre.Ip + 5
        /\ Ip \in DOMAIN Functions
        /\ CallStack = pre.CallStack
        /\ Memory = pre.Memory
        /\ Running
        /\ fatal = ""

\* Generate accepted the Program and NewVm has just built a live VM on the
\* bytecode it produced.
Generated == asm.status = "done" /\ asm.err = "" /\ Constructed /\ fatal = ""

\* C18: for a Program that Generate accepts, the function table the VM
\* builds by scanning the bytecode has exactly one entry per function of
\* the Program, keyed by the body address the generator recorded for it,
\* with its parameter count and return kind, and no other entry.
C18_FunctionRoundTrip ==
    Generated =>
        /\ DOMAIN Functions =
              {asm.functionTable[program.Functions[i].Name] : i \in DOMAIN program.Functions}
        /\ \A i \in DOMAIN program.Functions :
              LET fn == program.Functions[i]
                  a == asm.functionTable[fn.Name]
              IN  /\ a \in DOMAIN Functions
                  /\ Functions[a].ParamCount = Len(fn.Params)
                  /\ Functions[a].ReturnType = fn.ReturnType

\* C19: every struct definition of the Program is decoded by
\* buildStructsTable into an entry with the same name and the same ordered
\* field names, field kinds and array element kinds, and defineStructs
\* encodes an Array field as its name, one kind byte and one element-kind
\* byte.
C19_StructRoundTrip ==
    Generated =>
        \A i \in DOMAIN program.Structs :
            LET sd == program.Structs[i] IN
            /\ sd.Name \in DOMAIN Structs
            /\ Structs[sd.Name].Name = sd.Name
            /\ Len(Structs[sd.Name].Fields) = Len(sd.Fields)
            /\ \A j \in DOMAIN sd.Fields :
                  /\ Structs[sd.Name].Fields[j].Name = sd.Fields[j].Name
                  /\ Structs[sd.Name].Fields[j].Type = sd.Fields[j].Type
                  /\ Structs[sd.Name].Fields[j].ArrayType = sd.Fields[j].ArrayType
                  /\ sd.Fields[j].Type = ValueArray =>
                        Len(emitField(NoGenerator("pending"), sd.Fields[j]).bytecode)
                            = Len(sd.Fields[j].Name) + 3

\* The last step was a SYSCALL of STR_CAT that found two Ptr operands, each
\* the address of a region LoadString reads.
StrCatOnStrings ==
    /\ op = SYSCALL
    /\ Uint16At(Bytecode, pre.Ip + 1) % 256 = STR_CAT
    /\ Len(PreStack) >= 2
    /\ FirstPopped.Kind = ValuePtr
    /\ SecondPopped.Kind = ValuePtr
    /\ LoadString(pre.Memory, FirstPopped.Ptr).err = ""
    /\ LoadString(pre.Memory, SecondPopped.Ptr).err = ""

\* C21: STR_CAT with string Ptr q popped first and string Ptr p popped
\* second pushes a Ptr to a newly allocated string region whose content is
\* LoadString(p) followed by LoadString(q), and leaves the two source
\* regions unchanged and live.
C21_StrCat ==
    (StrCatOnStrings /\ fatal = "") =>
        LET q == FirstPopped.Ptr
            p == SecondPopped.Ptr
            r == Top(CurStack)
        IN  /\ Len(CurStack) = Len(PreStack) - 1
            /\ r.Kind = ValuePtr
            /\ r.Ptr \notin DOMAIN pre.Memory
            /\ r.Ptr \in DOMAIN Memory
            /\ LoadString(Memory, r.Ptr) =
                  [str |-> LoadString(pre.Memory, p).str \o LoadString(pre.Memory, q).str,
                   err |-> ""]
            /\ {p, q} \subseteq DOMAIN Memory
            /\ Memory[p] = pre.Memory[p]
            /\ Memory[q] = pre.Memory[q]

\* The bytes that are no executable opcode: the values above STFIELD and the
\* markers FUNC_NORMAL, FUNC_MAIN and DEFSTRUCT.
NotExecutable(o) == o > STFIELD \/ o \in {FUNC_NORMAL, FUNC_MAIN, DEFSTRUCT}

\* C22: executing a byte that is not an executable opcode is fatal: the VM
\* stops with an error rather than continuing with the next byte.
C22_UnknownOpcodeFatal ==
    NotExecutable(op) => fatal # "" /\ Ip = pre.Ip

\* The last step was a typed arithmetic opcode that found two operands, one
\* at least of the wrong kind; a comparison that found two operands of
\* different kinds; or a conditional jump, its operands read, that found a
\* value of the wrong kind.
TypeMismatch ==
    /\ Len(pre.CallStack) > 0
    /\ \/ /\ op \in {IADD, ISUB, IMUL, IDIV}
          /\ Len(PreStack) >= 2
          /\ {FirstPopped.Kind, SecondPopped.Kind} # {ValueInt32}
       \/ /\ op \in {FADD, FSUB, FMUL, FDIV}
          /\ Len(PreStack) >= 2
          /\ {FirstPopped.Kind, SecondPopped.Kind} # {ValueFloat32}
       \/ /\ op \in {EQ, NE, LT, LE, GT, GE}
          /\ Len(PreStack) >= 2
          /\ FirstPopped.Kind # SecondPopped.Kind
       \/ /\ op \in {IJE, IJNE}
          /\ pre.Ip + 6 < Len(Bytecode)
          /\ Len(PreStack) >= 1
          /\ FirstPopped.Kind # ValueInt32
       \/ /\ op \in {FJE, FJNE}
          /\ pre.Ip + 6 < Len(Bytecode)
          /\ Len(PreStack) >= 1
          /\ FirstPopped.Kind # ValueFloat32

\* C23: a typed arithmetic opcode given an operand of the wrong kind, a
\* comparison given operands of different kinds and a conditional jump whose
\* popped value has the wrong kind report an error and stop the VM: no
\* result is pushed (the operand stack at most loses operands), and the
\* heap, the locals of every frame, the frames below and the output are
\* unchanged.
C23_TypeDiscipline ==
    TypeMismatch =>
        /\ fatal # ""
        /\ Len(CallStack) = Len(pre.CallStack)
        /\ Len(CurStack) <= Len(PreStack)
        /\ CurStack = SubSeq(PreStack, 1, Len(CurStack))
        /\ Memory = pre.Memory
        /\ \A i \in DOMAIN CallStack : CallStack[i].Locals = pre.CallStack[i].Locals
        /\ \A i \in 1..(Len(CallStack) - 1) : CallStack[i] = pre.CallStack[i]
        /\ output = pre.output

\* C23 happens: a float jump on an Int32 and an integer addition on a
\* Float32 stopped a VM that had a heap region, two locals and a byte of
\* output.
C23_Witness ==
    /\ TypeMismatch
    /\ op \in {FJE, IADD}
    /\ fatal # ""
    /\ DOMAIN Memory # {}
    /\ Cardinality(DOMAIN Top(CallStack).Locals) = 2
    /\ output = <<Written(65)>>
    /\ Len(CurStack) = 1

\* The last step was a LOAD whose operand could be read, in a frame; its
\* slot.
LoadOfSlot == op = LOAD /\ Len(pre.CallStack) > 0 /\ pre.Ip + 2 < Len(Bytecode)
LoadedSlot == Uint16At(Bytecode, pre.Ip + 1)

\* C24: local slots are per frame.  The locals of every frame are what the
\* STOREs executed in that frame last wrote (so no STORE of a callee changes
\* a slot of the caller, and a LOAD leaves the slots as they are); LOAD k
\* pushes the value STORE k last wrote in the same frame, also after a
\* callee has returned, and is fatal in a frame where slot k was never
\* stored, whatever the frames of the callers hold.
C24_LocalSlots ==
    /\ Len(written) = Len(CallStack)
    /\ \A i \in DOMAIN CallStack : CallStack[i].Locals = written[i]
    /\ (LoadOfSlot /\ LoadedSlot \in DOMAIN written[Len(written)]) =>
          /\ fatal = ""
          /\ CurStack = Append(PreStack, written[Len(written)][LoadedSlot])
    /\ (LoadOfSlot /\ LoadedSlot \notin DOMAIN written[Len(written)]) =>
          /\ fatal # ""
          /\ CallStack = pre.CallStack

\* C24 happens: main, back from a callee that stored 2 in its own slot 0,
\* loads the 1 it had stored in slot 0 before the CALL.
C24_Witness ==
    /\ LoadOfSlot
    /\ LoadedSlot = 0
    /\ pre.op = RETV
    /\ Bytecode = LocalsProgram("store", 0)
    /\ fatal = ""
    /\ Len(CallStack) = 1
    /\ CurStack = <<Int32Value(1)>>

\* Generate has run and returned no error.
Accepted == asm.status = "done" /\ asm.err = ""

\* The bytes of the struct records and of the functions of the Program.
StreamBeforeHalt ==
    generateFunctions(defineStructs(NoGenerator("pending"), program.Structs, 1),
                      program.Functions, 1).bytecode

\* C25: a byte stream that Generate returns without error ends with a HALT
\* byte that follows the last function, and for a Program with no struct and
\* no function it is the single HALT byte.
C25_FinalHalt ==
    Accepted =>
        /\ Len(asm.bytecode) = Len(StreamBeforeHalt) + 1
        /\ SubSeq(asm.bytecode, 1, Len(asm.bytecode) - 1) = StreamBeforeHalt
        /\ asm.bytecode[Len(asm.bytecode)] = HALT
        /\ (program.Structs = <<>> /\ program.Functions = <<>>) => asm.bytecode = <<HALT>>

\* C25 happens: Generate accepted a Program of two functions, the last of
\* which does not end with a zero byte.
C25_Witness ==
    /\ Accepted
    /\ Len(program.Functions) = 2
    /\ Len(asm.bytecode) > 2
    /\ asm.bytecode[Len(asm.bytecode) - 1] # HALT
    /\ asm.bytecode[Len(asm.bytecode)] = HALT

\* The failure of instruction k of function i of the Program, of the kinds
\* the generator must refuse: a PUSH without exactly two operands, a PUSH of
\* a byte literal outside 0..255, a CALL of a function that is not in the
\* function table when the instruction is generated (the table then holds
\* functions 1..i), a jump to a label that is not in the function's labels
\* map, a NEWSTRUCT of a struct that is not defined; "" for none of them.
Failure(i, k) ==
    LET fn == program.Functions[i]
        inst == fn.Body[k]
        ops == inst.Operands
    IN  IF inst.Opcode = PUSH /\ Len(ops) # 2 THEN "two operands"
        ELSE IF /\ inst.Opcode = PUSH
                /\ ops[1].Type = "BYTE_TYPE"
                /\ ops[2].Literal.kind = "int"
                /\ (ops[2].Literal.n < 0 \/ ops[2].Literal.n > 255) THEN "byte range"
        ELSE IF /\ inst.Opcode = CALL
                /\ Len(ops) = 1
                /\ ops[1].Literal.s \notin {program.Functions[j].Name : j \in 1..i}
            THEN "undefined function"
        ELSE IF /\ inst.Opcode \in {JMP, IJE, IJNE, FJE, FJNE}
                /\ Len(ops) >= 1
                /\ ops[1].Literal.s \notin DOMAIN fn.Labels THEN "undefined label"
        ELSE IF /\ inst.Opcode = NEWSTRUCT
                /\ Len(ops) = 1
                /\ ops[1].Literal.s \notin {program.Structs[j].Name : j \in DOMAIN program.Structs}
            THEN "undefined struct"
        ELSE ""

\* The instructions of the Program, as (function, instruction) indices.
Instructions ==
    {ik \in (DOMAIN program.Functions) \X (1..5) : ik[2] <= Len(program.Functions[ik[1]].Body)}

\* The Program cut just before instruction k of function i.
CutBefore(i, k) ==
    [program EXCEPT !.Functions =
        [SubSeq(@, 1, i) EXCEPT ![i].Body = SubSeq(@, 1, k - 1)]]

\* The messages that name a failure kind.
Naming(kind) ==
    CASE kind = "two operands" -> {"push requires two operands"}
      [] kind = "undefined function" -> {"undefined functionn"}
      [] kind = "undefined label" -> {"undefined label"}
      [] kind = "undefined struct" -> {"undefined struct"}
      [] kind = "byte range" -> {"byte value out of range"}

\* C26: Generate returns an error and no bytecode whenever an instruction
\* is a PUSH without exactly two operands, a CALL of a function absent from
\* the function table, a jump to a label absent from the function's labels
\* map, a NEWSTRUCT of an absent struct or a PUSH of a byte literal outside
\* 0..255, and the message names the kind of the first such failure.
C26_GenerateRefuses ==
    asm.status = "done" =>
        \A ik \in Instructions :
            Failure(ik[1], ik[2]) # "" =>
                /\ asm.err # ""
                /\ asm.bytecode = <<>>
                /\ Generate(CutBefore(ik[1], ik[2])).err = "" =>
                       asm.err \in Naming(Failure(ik[1], ik[2]))

\* C26 happens: Generate refused a Program whose second function, after a
\* first that it generated, calls a function that is not in the table.
C26_Witness ==
    /\ asm.status = "done"
    /\ Len(program.Functions) = 2
    /\ Failure(2, 1) = "undefined function"
    /\ asm.err = "undefined functionn"
    /\ asm.bytecode = <<>>
    /\ fatal # ""

\* The jump instructions of the Program.
Jumps ==
    {ik \in Instructions :
        program.Functions[ik[1]].Body[ik[2]].Opcode \in {JMP, IJE, IJNE, FJE, FJNE}}

\* The offset in the generated bytecode of instruction k of function i: the
\* length of what Generate emits before it.
OffsetOf(i, k) == Len(Generate(CutBefore(i, k)).bytecode) - 1

\* The word of a jump's immediate operand.
ImmediateOf(tok) == IF tok.Type = "INT" THEN FromInt32(tok.Literal.n) ELSE tok.Literal.w

\* C27: for every jump the generator emits, the two bytes after the opcode
\* are, big-endian, the value the function's labels map holds for the named
\* label (an instruction index), unchanged, and the four bytes of a
\* conditional jump's immediate follow them.
C27_JumpOperands ==
    Accepted =>
        \A ik \in Jumps :
            LET fn == program.Functions[ik[1]]
                inst == fn.Body[ik[2]]
                at == OffsetOf(ik[1], ik[2])
            IN  /\ At(asm.bytecode, at) = inst.Opcode
                /\ Slice(asm.bytecode, at + 1, at + 3) =
                      <<fn.Labels[inst.Operands[1].Literal.s] \div 256,
                        fn.Labels[inst.Operands[1].Literal.s] % 256>>
                /\ inst.Opcode # JMP =>
                      Slice(asm.bytecode, at + 3, at + 7) = ImmediateOf(inst.Operands[2])

\* C27 happens: Generate emitted an FJNE to a label at instruction index 3,
\* which is not the byte offset of that instruction, with the immediate NaN.
C27_Witness ==
    /\ Accepted
    /\ \E ik \in Jumps :
          LET fn == program.Functions[ik[1]]
              inst == fn.Body[ik[2]]
          IN  /\ inst.Opcode = FJNE
              /\ fn.Labels[Name_L] = 3
              /\ OffsetOf(ik[1], 4) # 3
              /\ Slice(asm.bytecode, OffsetOf(ik[1], ik[2]), OffsetOf(ik[1], ik[2]) + 7)
                    = <<FJNE, 0, 3>> \o F32NaN

\* The last step was a RET that popped the top frame and left frame i on
\* top.
ReturnedInto(i) ==
    op = RET /\ fatal = "" /\ Len(CallStack) = Len(pre.CallStack) - 1 /\ i = Len(CallStack)

\* C28: frame isolation.  A step changes neither the operand stack nor the
\* locals of a frame that was below the top frame and remains, except that
\* RET appends the return value to the operand stack of the frame directly
\* below the one it pops; RETV changes no remaining frame.
C28_FrameIsolation ==
    \A i \in 1..(Len(pre.CallStack) - 1) :
        i <= Len(CallStack) =>
            IF ReturnedInto(i)
            THEN CallStack[i] = [pre.CallStack[i] EXCEPT !.LocalStack = Append(@, Top(PreStack))]
            ELSE CallStack[i] = pre.CallStack[i]

\* C28 happens: a RETV popped the frame of a callee and left the caller's
\* frame, which holds an operand and a local, as it was.
C28_Witness ==
    /\ op = RETV
    /\ fatal = ""
    /\ Len(pre.CallStack) = 2
    /\ Len(CallStack) = 1
    /\ Len(CurStack) > 0
    /\ DOMAIN Top(CallStack).Locals # {}
    /\ CallStack[1] = pre.CallStack[1]

\* The last step was an allocating opcode that succeeded, and the address
\* it pushed.
Allocated ==
    /\ fatal = ""
    /\ \/ op \in {ALLOC, STRALLOC, NEWARR, NEWSTRUCT}
       \/ op = SYSCALL /\ Uint16At(Bytecode, pre.Ip + 1) % 256 = STR_CAT

AllocatedPtr == Top(CurStack).Ptr

\* C29: the keys of the heap's address-to-region map are exactly the
\* addresses that ALLOC, STRALLOC, NEWARR, NEWSTRUCT and STR_CAT returned and
\* no FREE has taken since; an allocation returns an address that no live
\* allocation has; only those opcodes add a key, and only FREE removes one.
C29_HeapKeys ==
    /\ DOMAIN Memory = live
    /\ Allocated =>
          /\ Top(CurStack).Kind = ValuePtr
          /\ AllocatedPtr \notin pre.live
          /\ DOMAIN Memory = DOMAIN pre.Memory \cup {AllocatedPtr}
    /\ (op = FREE /\ fatal = "") =>
          /\ FirstPopped.Ptr \in DOMAIN pre.Memory
          /\ DOMAIN Memory = DOMAIN pre.Memory \ {FirstPopped.Ptr}
    /\ ~(Allocated \/ (op = FREE /\ fatal = "")) => DOMAIN Memory = DOMAIN pre.Memory

\* C29 happens: an allocation, made while one region was live and after
\* another had been freed, returned an address that was not live.
C29_Witness ==
    /\ Allocated
    /\ pre.freed # {}
    /\ Cardinality(pre.live) = 1
    /\ Cardinality(live) = 2
    /\ DOMAIN Memory = live

\* The size the struct layout gives a field of a kind: 4 bytes for Int32 and
\* Float32, the pointer width for Ptr, String, Array and Struct.
FieldSize(kind) == IF kind \in {ValueInt32, ValueFloat32} THEN 4 ELSE PtrSize

RECURSIVE SizeBefore(_, _)
SizeBefore(fields, i) ==
    IF i <= 1 THEN 0 ELSE SizeBefore(fields, i - 1) + FieldSize(fields[i - 1].Type)

\* C30: in every entry of the struct table each field has one of the six
\* kinds with a size, field i's offset is the sum of the sizes of the fields
\* before it, the struct's Size is the sum over all its fields, and the byte
\* ranges of any two fields of one struct are disjoint.
C30_StructLayout ==
    \A s \in DOMAIN Structs :
        LET fields == Structs[s].Fields
        IN  /\ \A i \in 1..Len(fields) :
                  /\ fields[i].Type \in {ValueInt32, ValueFloat32, ValuePtr,
                                         ValueString, ValueArray, ValueStruct}
                  /\ fields[i].Offset = SizeBefore(fields, i)
            /\ Structs[s].Size = SizeBefore(fields, Len(fields) + 1)
            /\ \A i, j \in 1..Len(fields) :
                  i < j => fields[i].Offset + FieldSize(fields[i].Type) <= fields[j].Offset

\* C30 happens: the table holds the six-field struct Q, whose fields of
\* both sizes lie at 0, 4, 8, 16, 24 and 32 of its 40 bytes, and the
\* machine has run.
C30_Witness ==
    /\ <<81>> \in DOMAIN Structs
    /\ Len(Structs[<<81>>].Fields) = 6
    /\ Structs[<<81>>].Fields[3].Offset = 8
    /\ Structs[<<81>>].Fields[6].Offset = 32
    /\ Structs[<<81>>].Size = 40
    /\ op = HALT

\* The errors the operations of Heap return.
HeapErrors ==
    {"mmap failed", "Failed to free memory at address", "invalid memory address",
     "Memory access out of bounds", "Invalid memory address", "memory access out of bounds",
     "Not a string value", "Invalid memory access", "Not an array",
     "Array index out of bounds!", "Array index out of bounds", "Type mismatch",
     "Unsupported element type", "Not a struct", "Field is not found on struct",
     "Field not found in struct", "Unsupported field type", "Unsupported type"}

\* The last step ended in one of the errors of the heap.
HeapOpFailed == ~pre.init /\ fatal \in HeapErrors

\* C31: a step that ends in an error of a heap operation leaves the
\* address-to-region map and every region's bytes as they were before it.
C31_FailedHeapOp == HeapOpFailed => Memory = pre.Memory

\* C31 happens: STELEM with a value of another kind than the elements of a
\* live array was refused.
C31_Witness ==
    /\ op = STELEM
    /\ fatal = "Type mismatch"
    /\ PreStack[Len(PreStack) - 2].Kind = ValuePtr
    /\ PreStack[Len(PreStack) - 2].Ptr \in DOMAIN pre.Memory
    /\ ReadByte(pre.Memory[PreStack[Len(PreStack) - 2].Ptr], 0) = ValueArray
    /\ Memory = pre.Memory

\* C32: GT is strict on Int32 operands: with x first popped and y second
\* popped it pushes Int32(1) when y > x and Int32(0) otherwise, so it
\* pushes Int32(0) on equal operands.
C32_GtStrict ==
    Binary(GT, ValueInt32) =>
        /\ fatal = ""
        /\ CurStack = Append(BelowTwo,
              Int32Value(IF ToInt32(SecondPopped.Raw) > ToInt32(FirstPopped.Raw)
                         THEN 1 ELSE 0))

\* C33: execution is deterministic at every RET: in a state whose next
\* opcode is RET, whichever entry of the function table the scan stops at,
\* the step ends in the same IP, call stack, Running flag, fatal error and
\* output, so two runs of the same bytecode cannot part there.
C33_Deterministic ==
    Fetch(RET) =>
        \A c1, c2 \in RetCandidates(Fetched) :
            /\ ExecRET(Fetched, c1) = ExecRET(Fetched, c2)
            /\ RetOutput(Fetched, c1) = RetOutput(Fetched, c2)

\* C34: after every executed instruction that leaves the machine running,
\* IP is an offset of the bytecode, so the next fetch of the run loop reads
\* a byte that exists.
C34_IpInBytecode ==
    (~pre.init /\ op # -1 /\ Live) => InRange(Bytecode, Ip)

\* C35: while the machine runs the call stack is not empty, its bottom
\* frame is the one frame whose return address is the sentinel, and a step
\* changes its depth only by one: CALL adds a frame, RET and RETV in a
\* called frame remove one, nothing else adds or removes any.
C35_CallStackShape ==
    /\ Live =>
          /\ Len(CallStack) >= 1
          /\ \A i \in DOMAIN CallStack : (CallStack[i].ReturnAddress = Sentinel) <=> (i = 1)
    /\ (~pre.init /\ op # -1 /\ fatal = "") =>
          Len(CallStack) - Len(pre.CallStack) =
              (IF op = CALL THEN 1
               ELSE IF op \in {RET, RETV} /\ Len(pre.CallStack) > 1 THEN -1
               ELSE 0)

\* The 16-bit id of the SYSCALL the last step executed.
SyscallId == Uint16At(Bytecode, pre.Ip + 1)

\* C36: a SYSCALL whose 16-bit id is none of 0..4 executes no built-in: it
\* consumes its operand and leaves the call stack, the heap and the output
\* as they were, and does not fail as a built-in would.
C36_WholeId ==
    (/\ op = SYSCALL
     /\ pre.Ip + 2 < Len(Bytecode)
     /\ SyscallId \notin {STR_LEN, STR_CAT, STR_EQUALS, WRITE_BYTE, READ_BYTE}) =>
        /\ fatal = ""
        /\ Ip = pre.Ip + 3
        /\ CallStack = pre.CallStack
        /\ Memory = pre.Memory
        /\ output = pre.output

\* The CALL instructions of the Program that name a function the Program
\* defines.
CallsOfDefined ==
    {ik \in Instructions :
        LET inst == program.Functions[ik[1]].Body[ik[2]]
        IN  /\ inst.Opcode = CALL
            /\ Len(inst.Operands) = 1
            /\ \E j \in DOMAIN program.Functions :
                  program.Functions[j].Name = inst.Operands[1].Literal.s}

\* The function of the Program that instruction ik calls.
CalleeOf(ik) ==
    CHOOSE j \in DOMAIN program.Functions :
        program.Functions[j].Name =
            program.Functions[ik[1]].Body[ik[2]].Operands[1].Literal.s

\* C37: a CALL that names a function of the Program is generated wherever
\* that function is defined, before the caller, after it or as the caller
\* itself: when everything before the CALL is generated the CALL is too,
\* and its 16-bit operand is the address of the callee's body.
C37_CallResolution ==
    asm.status = "done" =>
        \A ik \in CallsOfDefined :
            Generate(CutBefore(ik[1], ik[2])).err = "" =>
                /\ Generate(CutBefore(ik[1], ik[2] + 1)).err = ""
                /\ Accepted =>
                      Slice(asm.bytecode, OffsetOf(ik[1], ik[2]) + 1, OffsetOf(ik[1], ik[2]) + 3)
                          = U16(OffsetOf(CalleeOf(ik), 1))

\* The last step was a jump that was taken: a JMP, or a conditional jump
\* whose immediate and popped value compare as the opcode asks.
JumpTaken ==
    /\ ~pre.init
    /\ fatal = ""
    /\ \/ op = JMP
       \/ /\ op \in {IJE, IJNE, FJE, FJNE}
          /\ LET imm == Slice(Bytecode, pre.Ip + 3, pre.Ip + 7)
                 raw == FirstPopped.Raw
             IN  CASE op = IJE -> IntSame(imm, raw)
                   [] op = IJNE -> IntDiffers(imm, raw)
                   [] op = FJE -> FloatSame(imm, raw)
                   [] op = FJNE -> FloatDiffers(imm, raw)

\* C38: in generated bytecode a taken jump to label L continues at the
\* first byte of the instruction that L marks in the enclosing function,
\* the one with index Labels[L].
C38_JumpReachesLabel ==
    (Accepted /\ JumpTaken) =>
        \A ik \in Jumps :
            OffsetOf(ik[1], ik[2]) = pre.Ip =>
                LET fn == program.Functions[ik[1]]
                IN  Ip = OffsetOf(ik[1], fn.Labels[fn.Body[ik[2]].Operands[1].Literal.s] + 1)

\* C39: EQ and NE on two Ptr values or two Byte values do not fail: EQ
\* pushes Int32(1) when the two payloads are equal and Int32(0) when they
\* are not, and NE pushes the opposite.
C39_EqualityOfSameTag ==
    \A o \in {EQ, NE}, k \in {ValuePtr, ValueByte} :
        Binary(o, k) =>
            LET same == IF k = ValuePtr THEN FirstPopped.Ptr = SecondPopped.Ptr
                        ELSE FirstPopped.Raw = SecondPopped.Raw
            IN  /\ fatal = ""
                /\ CurStack = Append(BelowTwo, Int32Value(IF same = (o = EQ) THEN 1 ELSE 0))

\* The Program has no jump and no CALL instruction.
StraightLine ==
    \A ik \in Instructions :
        program.Functions[ik[1]].Body[ik[2]].Opcode \notin {JMP, IJE, IJNE, FJE, FJNE, CALL}

\* The machine has stopped: HALT or RET in the outermost frame cleared
\* Running, or a fatal error ended the process.
Stopped == ~Running \/ fatal # ""

====
